---- MODULE Spec2Model ----
(***************************************************************************)
(* A model of the TRAC T-64 processor of trac.py: the form store with its  *)
(* form pointer, the primitives that act on it, and the active-string      *)
(* scanner.  Strings are TLA+ strings; a Python index p (0-based) into a   *)
(* string s is the character SubSeq(s, p+1, p+1).                          *)
(***************************************************************************)
EXTENDS Integers, Sequences, FiniteSets, TLC

VARIABLES
    forms,              \* trac.py `forms`: name -> form
    activeImpliedCall,  \* trac.py `activeImpliedCall`
    last,               \* the primitive call dispatched last, and what it returned
    pc,                 \* psrs: "idle" between two rounds of the main loop, "scan"
                        \* inside parse
    active,             \* parse: the active string of the innermost parse running
    stack,              \* parse: the frames of the parse calls running, outermost first
    printed,            \* what the console printed in this round
    rounds,             \* rounds of the main loop started
    opened,             \* calls the scanner opened in this round
    dispatched,         \* the calls eval was handed in this round, in order
    bodies,             \* the values of implied calls spliced into the active string
    lastimplied,        \* how the implied call dispatched last was invoked
    disp,               \* the call eval was handed last in this round
    mode,               \* trac.py `Mode`: swactive is swextended, and the switches
                        \* p and u of swextended
    metachar,           \* trac.py `metachar`
    syntchar,           \* trac.py `syntchar`
    tracing,            \* trac.py `tracing`
    rshistory,          \* trac.py `rshistory`, by the number of its entries: the list is
                        \* only appended to, and its entries are read by nothing but the
                        \* history keys of the ANSI console
    inbuf,              \* trac.py `tc.inbuf`: the characters read ahead by the console
    stdin,              \* sys.stdin: the lines typed and not yet read, "" the end of file
    tcinp,              \* trac.py `tc.inp`: the InputString of the ANSI console (rstring,
                        \* inspoint), with tc.carriagepos and tc.scrsize[1] it is laid out
                        \* by, whether readstr is in its main loop (editing) and has
                        \* taken no key yet (fresh)
    files,              \* the files the block primitives wrote: path -> forms pickled
    received,           \* the arguments the body of a primitive was run on last
    validated           \* rounds of the main loop that ended with the validate pass

storevars == <<forms, activeImpliedCall, last, mode, metachar, syntchar, tracing,
               rshistory, inbuf, stdin, tcinp, files, received>>
scanvars == <<pc, active, stack, printed, rounds, opened, dispatched, bodies,
              lastimplied, disp, validated>>
vars == <<forms, activeImpliedCall, last, pc, active, stack, printed, rounds, opened,
          dispatched, bodies, lastimplied, disp, mode, metachar, syntchar, tracing,
          rshistory, inbuf, stdin, tcinp, files, received, validated>>

-----------------------------------------------------------------------------
(* Bounds of the model *)

\* length of the longest string defined as a form
MaxLen == 3

\* rounds of the main loop
MaxRounds == 3

\* the forms the pointer primitives are called on, and a bystander form
Names == {"f"}
Others == {"g"}
Alphabet == {"a", "b"}

RECURSIVE StrsUpTo(_)
StrsUpTo(n) ==
    IF n = 0 THEN {""}
    ELSE LET S == StrsUpTo(n - 1) IN S \cup {s \o c : s \in S, c \in Alphabet}

Strs == StrsUpTo(MaxLen)

-----------------------------------------------------------------------------
(* Python string helpers *)

\* s[p]
CharAt(s, p) == SubSeq(s, p + 1, p + 1)

\* s[p:]
StrFrom(s, p) == SubSeq(s, p + 1, Len(s))

\* s[a:b]
StrSlice(s, a, b) == SubSeq(s, a + 1, b)

\* s.find(pat, start) for a non-empty pat: leftmost index >= start, or -1
RECURSIVE strfind(_, _, _)
strfind(s, pat, start) ==
    IF start + Len(pat) > Len(s) THEN -1
    ELSE IF SubSeq(s, start + 1, start + Len(pat)) = pat THEN start
    ELSE strfind(s, pat, start + 1)

\* s.split(sep) for a non-empty sep
RECURSIVE strsplit(_, _)
\* the split at i, the leftmost occurrence of sep in s
\* faulty variant: splits at the leftmost occurrence only
splitat_first(s, sep, i) ==
    IF i = -1 THEN <<s>>
    ELSE <<StrSlice(s, 0, i), StrFrom(s, i + Len(sep))>>

splitat(s, sep, i) ==
    IF i = -1 THEN <<s>>
    ELSE <<StrSlice(s, 0, i)>> \o strsplit(StrFrom(s, i + Len(sep)), sep)

strsplit(s, sep) == splitat(s, sep, strfind(s, sep, 0))

RECURSIVE strjoin(_)
strjoin(ss) == IF ss = <<>> THEN "" ELSE Head(ss) \o strjoin(Tail(ss))

-----------------------------------------------------------------------------
(* Chunks *)

textchunk(text) == [kind |-> "text", text |-> text, gapno |-> -1, pointer |-> -1]
gapchunk(gapno) == [kind |-> "gap", text |-> "", gapno |-> gapno, pointer |-> -1]
endchunk == [kind |-> "end", text |-> "", gapno |-> -1, pointer |-> -1]

isend(c) == c.kind = "end"
charavail(c) == c.kind = "text"

\* faulty variant: a Text chunk gives its whole text wherever the pointer is
valchunk_whole(c, args) ==
    CASE c.kind = "text" -> c.text
      [] c.kind = "gap" ->
            IF c.gapno < Len(args) THEN args[c.gapno + 1] ELSE ""
      [] OTHER -> ""

\* valchunk(*args): args is the tuple handed to form.val
valchunk(c, args) ==
    CASE c.kind = "text" ->
            IF c.pointer = -1 THEN c.text ELSE StrFrom(c.text, c.pointer)
      [] c.kind = "gap" ->
            IF c.gapno < Len(args) THEN args[c.gapno + 1] ELSE ""
      [] OTHER -> ""

RECURSIVE segpieces(_, _)
\* faulty variant: empty pieces are kept as Text chunks
segpieces_keepempty(pieces, gapno) ==
    IF pieces = <<>> THEN <<>>
    ELSE <<textchunk(Head(pieces)), gapchunk(gapno)>> \o segpieces(Tail(pieces), gapno)

segpieces(pieces, gapno) ==
    IF pieces = <<>> THEN <<>>
    ELSE (IF Head(pieces) # "" THEN <<textchunk(Head(pieces))>> ELSE <<>>)
         \o <<gapchunk(gapno)>> \o segpieces(Tail(pieces), gapno)

\* out.pop()
popped(out) == SubSeq(out, 1, Len(out) - 1)

segmentchunk(c, gapno, string) ==
    IF c.kind = "text" THEN popped(segpieces(strsplit(c.text, string), gapno))
    ELSE <<c>>

\* textchunk.find / formchunk.find: <<index, string passed over>>
findfrom(text, start, find) ==
    <<find, IF find < 0 THEN StrFrom(text, start) ELSE StrSlice(text, start, find)>>

findstart(text, findstr, start) ==
    findfrom(text, start, IF findstr = "" THEN -1 ELSE strfind(text, findstr, start))

\* a find that looks from the start of the chunk's text, not from its pointer
chunkfind_fromstart(c, findstr) ==
    IF c.kind = "text" THEN findstart(c.text, findstr, 0) ELSE <<-1, "">>

chunkfind(c, findstr) ==
    IF c.kind = "text"
    THEN findstart(c.text, findstr, IF c.pointer >= 0 THEN c.pointer ELSE 0)
    ELSE <<-1, "">>

\* getseg: <<text, skipnext>>
getseg(c) ==
    IF c.kind = "text" THEN <<StrFrom(c.text, c.pointer), TRUE>> ELSE <<"", FALSE>>

-----------------------------------------------------------------------------
(* Forms: [formlist, chunkp] *)

enterchunk(f) == [f EXCEPT !.formlist[f.chunkp + 1].pointer = 0]
exitchunk(f) == [f EXCEPT !.formlist[f.chunkp + 1].pointer = -1]
curchunk(f) == f.formlist[f.chunkp + 1]
atend(f) == isend(curchunk(f))

\* exitchunk(); chunkp = p; enterchunk()
movechunk(f, p) == enterchunk([exitchunk(f) EXCEPT !.chunkp = p])

newform(string) ==
    enterchunk([formlist |-> IF string = "" THEN <<endchunk>>
                             ELSE <<textchunk(string), endchunk>>,
                chunkp |-> 0])

RECURSIVE valfrom(_, _, _)
valfrom(formlist, i, args) ==
    IF i > Len(formlist) THEN ""
    ELSE valchunk(formlist[i], args) \o valfrom(formlist, i + 1, args)

\* faulty variant: the value starts after the chunk holding the form pointer
val_afterpointer(f, args) == valfrom(f.formlist, f.chunkp + 2, args)

val(f, args) == valfrom(f.formlist, f.chunkp + 1, args)

RECURSIVE segmentlist(_, _, _)
segmentlist(formlist, segno, segstr) ==
    IF formlist = <<>> THEN <<>>
    ELSE segmentchunk(Head(formlist), segno, segstr)
         \o segmentlist(Tail(formlist), segno, segstr)

\* a numbering of the gaps that does not count the empty arguments
RECURSIVE segmentargs_packed(_, _, _)
segmentargs_packed(formlist, args, segno) ==
    IF args = <<>> THEN formlist
    ELSE IF Head(args) = "" THEN segmentargs_packed(formlist, Tail(args), segno)
    ELSE segmentargs_packed(segmentlist(formlist, segno, Head(args)), Tail(args), segno + 1)

RECURSIVE segmentargs(_, _, _)
segmentargs(formlist, args, segno) ==
    IF segno >= Len(args) THEN formlist
    ELSE segmentargs(IF args[segno + 1] = "" THEN formlist
                     ELSE segmentlist(formlist, segno, args[segno + 1]),
                     args, segno + 1)

\* the assignment `chunkp = 0` of form.segment binds a local: self.chunkp keeps
\* its value, and enterchunk() marks the chunk now at that index
segment(f, args) ==
    enterchunk([exitchunk(f) EXCEPT !.formlist = segmentargs(@, args, 0)])

resetPointer(f) == movechunk(f, 0)

RECURSIVE toNextChar(_)
toNextChar(f) ==
    IF atend(f) \/ charavail(curchunk(f)) THEN f
    ELSE toNextChar(movechunk(f, f.chunkp + 1))

\* <<form, ch>>
\* c the current chunk: (ch, toNext) = c.getNextCh()
\* faulty variant: the form pointer stays put after the last character of a chunk
nextfrom_stuck(f, c) ==
    IF c.pointer + 1 = Len(c.text)
    THEN <<f, CharAt(c.text, c.pointer)>>
    ELSE <<[f EXCEPT !.formlist[f.chunkp + 1].pointer = @ + 1], CharAt(c.text, c.pointer)>>

nextfrom(f, c) ==
    IF c.pointer + 1 = Len(c.text)
    THEN <<movechunk(f, f.chunkp + 1), CharAt(c.text, c.pointer)>>
    ELSE <<[f EXCEPT !.formlist[f.chunkp + 1].pointer = @ + 1], CharAt(c.text, c.pointer)>>

getNextChar(f) == nextfrom(f, curchunk(f))

\* <<form, TRUE when there is no previous character>>
RECURSIVE toPrevChar(_)
toPrevChar(f) ==
    IF curchunk(f).pointer > 0 THEN <<f, FALSE>>
    ELSE IF f.chunkp = 0 THEN <<f, TRUE>>
    ELSE IF charavail(f.formlist[f.chunkp]) THEN <<f, FALSE>>
    ELSE toPrevChar(movechunk(f, f.chunkp - 1))

\* <<form, ch>>
\* the form pointer set before the last character of the current chunk of g
tolastchar(g, text) ==
    <<[g EXCEPT !.formlist[g.chunkp + 1].pointer = Len(text) - 1],
      CharAt(text, Len(text) - 1)>>

\* faulty variant: inside a chunk the character right of the new pointer position
\* is not the one returned, text[p] is
prevfrom_offbyone(f, p) ==
    IF p > 0
    THEN <<[f EXCEPT !.formlist[f.chunkp + 1].pointer = p - 1],
           CharAt(curchunk(f).text, p)>>
    ELSE tolastchar(movechunk(f, f.chunkp - 1), f.formlist[f.chunkp].text)

prevfrom(f, p) ==
    IF p > 0
    THEN <<[f EXCEPT !.formlist[f.chunkp + 1].pointer = p - 1],
           CharAt(curchunk(f).text, p - 1)>>
    ELSE tolastchar(movechunk(f, f.chunkp - 1), f.formlist[f.chunkp].text)

getPrevChar(f) == prevfrom(f, curchunk(f).pointer)

-----------------------------------------------------------------------------
(* Numbers *)

Digits == "0123456789"
isdigit(c) == Len(c) = 1 /\ strfind(Digits, c, 0) >= 0

RECURSIVE strtoint(_)
strtoint(s) ==
    IF s = "" THEN 0
    ELSE 10 * strtoint(SubSeq(s, 1, Len(s) - 1)) + strfind(Digits, CharAt(s, Len(s) - 1), 0)

\* length of the run of digits that ends the string
RECURSIVE digitrun(_)
digitrun(s) ==
    IF s # "" /\ isdigit(CharAt(s, Len(s) - 1))
    THEN 1 + digitrun(SubSeq(s, 1, Len(s) - 1))
    ELSE 0

\* mathprim.parsenum: numre is (.*?)([+-]?)([0-9]*)\Z, so group 3 is the run of
\* digits that ends arg (k of them) and group 2 the sign just before it
numsign(rest) ==
    IF rest # "" /\ CharAt(rest, Len(rest) - 1) \in {"+", "-"}
    THEN CharAt(rest, Len(rest) - 1) ELSE ""

\* faulty variant: the sign is not applied
numparts_unsigned(prefix, sign, u) == [n |-> u, prefix |-> prefix, sign |-> sign]

numparts(prefix, sign, u) ==
    [n |-> IF sign = "-" THEN -u ELSE u, prefix |-> prefix, sign |-> sign]

numsplit(arg, k, sign) ==
    numparts(StrSlice(arg, 0, Len(arg) - k - Len(sign)), sign,
             strtoint(StrFrom(arg, Len(arg) - k)))

numrun(arg, k) == numsplit(arg, k, numsign(StrSlice(arg, 0, Len(arg) - k)))

parsenum(arg) == numrun(arg, digitrun(arg))

tracint(x) == parsenum(x).n

\* str(n)
RECURSIVE itoa(_)
itoa(n) ==
    IF n < 0 THEN "-" \o itoa(-n)
    ELSE IF n < 10 THEN CharAt(Digits, n)
    ELSE itoa(n \div 10) \o CharAt(Digits, n % 10)

\* x // y and x % y of Python, y # 0
floordiv(x, y) == IF y > 0 THEN x \div y ELSE (-x) \div (-y)
modulo(x, y) == x - y * floordiv(x, y)

-----------------------------------------------------------------------------
(* The partial-call primitives: each gives [f, val, force]; a Python return of *)
(* None is val "" (prim.__call__ turns None into '')                           *)

result(f, v, force) == [f |-> f, val |-> v, force |-> force]

\* (f.getNextChar(), False), r the <<form, ch>> of getNextChar
gotchar(r) == result(r[1], r[2], FALSE)

\* faulty variant: at the end the default is not handed back
ccnext_nodefault(g, default) ==
    IF atend(g) THEN result(g, "", TRUE) ELSE gotchar(getNextChar(g))

\* callCharacter after f.toNextChar() has moved the form to g
ccnext(g, default) ==
    IF atend(g) THEN result(g, default, TRUE) ELSE gotchar(getNextChar(g))

callCharacter(f, default) == ccnext(toNextChar(f), default)

RECURSIVE cnright(_, _, _)
\* one round of the while loop, f.toNextChar() having moved the form to g
cnrightstep(g, n, chrs, r) ==
    IF atend(g) THEN result(g, chrs, FALSE) ELSE cnright(r[1], n - 1, chrs \o r[2])

cnrightnext(g, n, chrs) ==
    cnrightstep(g, n, chrs, IF atend(g) THEN <<g, "">> ELSE getNextChar(g))

cnright(f, n, chrs) ==
    IF n > 0 THEN cnrightnext(toNextChar(f), n, chrs) ELSE result(f, chrs, FALSE)

RECURSIVE cnleft(_, _, _)
\* one round of the while loop, t the <<form, no previous>> of f.toPrevChar()
cnleftstep(t, n, chrs, r) ==
    IF t[2] THEN result(t[1], chrs, FALSE) ELSE cnleft(r[1], n + 1, r[2] \o chrs)

cnleftnext(t, n, chrs) ==
    cnleftstep(t, n, chrs, IF t[2] THEN <<t[1], "">> ELSE getPrevChar(t[1]))

cnleft(f, n, chrs) ==
    IF n < 0 THEN cnleftnext(toPrevChar(f), n, chrs) ELSE result(f, chrs, FALSE)

\* faulty variant: the side is that of the number, -0 read as 0
callNparsed_bynumber(f, pn, default) ==
    IF pn.n >= 0
    THEN IF atend(f) THEN result(f, default, TRUE)
         ELSE IF pn.n = 0 THEN result(toNextChar(f), "", FALSE)
         ELSE cnright(f, pn.n, "")
    ELSE IF f.chunkp = 0 /\ f.formlist[1].pointer = 0
         THEN result(f, default, TRUE)
         ELSE cnleft(f, pn.n, "")

\* callN with (n, throwaway, sgn) = pn
callNparsed(f, pn, default) ==
    IF pn.sign # "-"
    THEN IF atend(f) THEN result(f, default, TRUE)
         ELSE IF pn.n = 0 THEN result(toNextChar(f), "", FALSE)
         ELSE cnright(f, pn.n, "")
    ELSE IF f.chunkp = 0 /\ f.formlist[1].pointer = 0
         THEN result(f, default, TRUE)
         ELSE IF pn.n = 0 THEN result(toPrevChar(f)[1], "", FALSE)
         ELSE cnleft(f, pn.n, "")

callN(f, numstr, default) == callNparsed(f, parsenum(numstr), default)

\* callSeg past the at-end test: (text, skipnext) = seg, g the form after
\* exitchunk() and chunkp += 1
\* a callSeg that never skips the Gap after the text
callSegmove_noskip(g, seg) == result(enterchunk(g), seg[1], FALSE)

callSegmove(g, seg) ==
    IF atend(g) THEN result(enterchunk(g), seg[1], FALSE)
    ELSE result(enterchunk(IF seg[2] THEN [g EXCEPT !.chunkp = @ + 1] ELSE g),
                seg[1], FALSE)

callSeg(f, default) ==
    IF atend(f) THEN result(f, default, TRUE)
    ELSE callSegmove([exitchunk(f) EXCEPT !.chunkp = @ + 1], getseg(curchunk(f)))

\* the for loop of form.initial from chunk index findp: <<findp, idx, val>>,
\* idx = -1 when the loop ran out of chunks
RECURSIVE initialscan(_, _, _, _)
\* one round of the loop, r the (idx, string) of chunk.find(text)
initialstep(f, findp, text, sofar, r) ==
    IF r[1] = -1 THEN initialscan(f, findp + 1, text, sofar \o r[2])
    ELSE <<findp, r[1], sofar \o r[2]>>

initialscan(f, findp, text, sofar) ==
    IF findp >= Len(f.formlist) THEN <<findp, -1, sofar>>
    ELSE initialstep(f, findp, text, sofar, chunkfind(f.formlist[findp + 1], text))

\* form.initial after the loop, s its <<findp, idx, val>>
initialfound(f, text, default, s) ==
    IF s[2] = -1 THEN result(f, default, TRUE)
    ELSE IF Len(f.formlist[s[1] + 1].text) = s[2] + Len(text)
    THEN result(movechunk(f, s[1] + 1), s[3], FALSE)
    ELSE result([movechunk(f, s[1]) EXCEPT !.formlist[s[1] + 1].pointer = s[2] + Len(text)],
                s[3], FALSE)

initial(f, text, default) ==
    initialfound(f, text, default, initialscan(f, f.chunkp, text, ""))

\* form.deletedef over the store fs: [forms, err]
\* form.FNFError: the message of the primError
FNFError(name) == "form not found (" \o name \o ")"

\* faulty variant: a missing name ends the deleting in forgiving mode too
RECURSIVE deletedef_stops(_, _, _)
deletedef_stops(fs, args, unforgiving) ==
    IF args = <<>> THEN [forms |-> fs, err |-> ""]
    ELSE IF Head(args) \in DOMAIN fs
    THEN deletedef_stops([x \in DOMAIN fs \ {Head(args)} |-> fs[x]], Tail(args),
                         unforgiving)
    ELSE [forms |-> fs, err |-> IF unforgiving THEN FNFError(Head(args)) ELSE ""]

\* faulty variant: a missing name in unforgiving mode and nothing is deleted
RECURSIVE deletedef_whole(_, _, _)
deletedef_whole(fs, args, unforgiving) ==
    IF args = <<>> THEN [forms |-> fs, err |-> ""]
    ELSE LET r == deletedef_whole([x \in DOMAIN fs \ {Head(args)} |-> fs[x]],
                                  Tail(args), unforgiving)
         IN  IF Head(args) \notin DOMAIN fs /\ unforgiving
             THEN [forms |-> fs, err |-> FNFError(Head(args))]
             ELSE IF r.err # "" THEN [forms |-> fs, err |-> r.err]
             ELSE r

RECURSIVE deletedef(_, _, _)
deletedef(fs, args, unforgiving) ==
    IF args = <<>> THEN [forms |-> fs, err |-> ""]
    ELSE IF Head(args) \in DOMAIN fs
    THEN deletedef([x \in DOMAIN fs \ {Head(args)} |-> fs[x]], Tail(args), unforgiving)
    ELSE IF unforgiving THEN [forms |-> fs, err |-> FNFError(Head(args))]
    ELSE deletedef(fs, Tail(args), unforgiving)

deleteall == [x \in {} |-> x]

\* the parse calls that can run inside each other before the interpreter's
\* recursion limit is hit
MaxDepth == 8

Uppers == "ABCDEFGHIJKLMNOPQRSTUVWXYZ"
Lowers == "abcdefghijklmnopqrstuvwxyz"

\* c.lower(), i the index of c among the upper-case letters
lowerch(c, i) == IF i < 0 THEN c ELSE CharAt(Lowers, i)

\* s.lower()
RECURSIVE lower(_)
lower(s) ==
    IF s = "" THEN ""
    ELSE lowerch(CharAt(s, 0), strfind(Uppers, CharAt(s, 0), 0)) \o lower(StrFrom(s, 1))

-----------------------------------------------------------------------------
(* Primitives *)

\* the prim(...) registrations: minargs, maxargs (-1: unbounded), extended
P(minargs, maxargs, extended) ==
    [minargs |-> minargs, maxargs |-> maxargs, extended |-> extended]

prims ==
    [ps |-> P(1, 1, FALSE), rs |-> P(0, -1, FALSE), cm |-> P(1, 1, FALSE),
     rc |-> P(0, 0, FALSE), ds |-> P(2, 2, FALSE), dd |-> P(0, -1, FALSE),
     da |-> P(0, 0, FALSE), ss |-> P(1, -1, FALSE), cl |-> P(1, -1, FALSE),
     ni |-> P(1, 2, TRUE), cr |-> P(1, 1, FALSE), cc |-> P(1, 2, FALSE),
     cs |-> P(1, 2, FALSE), cn |-> P(2, 3, FALSE), in |-> P(2, 3, FALSE),
     ad |-> P(2, 3, FALSE), su |-> P(2, 3, FALSE), ml |-> P(2, 3, FALSE),
     dv |-> P(2, 3, FALSE), rm |-> P(2, 3, TRUE), bu |-> P(2, 2, FALSE),
     bi |-> P(2, 2, FALSE), bc |-> P(1, 1, FALSE), br |-> P(2, 2, FALSE),
     bs |-> P(2, 2, FALSE), eq |-> P(3, 4, FALSE), gr |-> P(3, 4, FALSE),
     sb |-> P(0, -1, FALSE), fb |-> P(0, -1, FALSE), eb |-> P(0, -1, FALSE),
     ln |-> P(1, 1, FALSE), pf |-> P(1, 1, FALSE), tn |-> P(0, 0, FALSE),
     tf |-> P(0, 0, FALSE), hl |-> P(0, 0, FALSE), mo |-> P(0, -1, FALSE)]

Max(a, b) == IF a >= b THEN a ELSE b

RECURSIVE nulls(_)
nulls(n) == IF n <= 0 THEN <<>> ELSE <<"">> \o nulls(n - 1)

\* faulty variant: the surplus arguments are kept
fixargs_uncut(p, args) == args \o nulls(Max(p.minargs, p.maxargs) - Len(args))

\* prim.fixargs past the checks of unforgiving mode: pad to max(minargs, maxargs),
\* cut to maxargs
fixargs(p, args) ==
    LET padded == args \o nulls(Max(p.minargs, p.maxargs) - Len(args))
    IN  IF p.maxargs >= 0 /\ p.maxargs < Len(padded)
        THEN SubSeq(padded, 1, p.maxargs) ELSE padded

\* the primitives whose function is form.find(name).<method>
formprims == {"ss", "cl", "cr", "cc", "cs", "cn", "in"}

\* the method of a form primitive on the form found: [f, val, force]
formfn(pname, f, a) ==
    CASE pname = "ss" -> [f |-> segment(f, Tail(a)), val |-> "", force |-> FALSE]
      [] pname = "cl" -> [f |-> f, val |-> val(f, Tail(a)), force |-> FALSE]
      [] pname = "cr" -> [f |-> resetPointer(f), val |-> "", force |-> FALSE]
      [] pname = "cc" -> callCharacter(f, a[2])
      [] pname = "cs" -> callSeg(f, a[2])
      [] pname = "cn" -> callN(f, a[2], a[3])
      [] pname = "in" -> initial(f, a[2], a[3])

\* faulty variant: the switch u is read from swextended in either mode
unforgiving_anymode(env) == env.mode.u

\* Mode.unforgiving(), Mode.extprim()
unforgiving(env) == env.mode.extended /\ env.mode.u
extprim(env) == env.mode.extended /\ env.mode.p

\* what a primitive hands back: its value and the force-active flag, or the
\* exception it raised ("" for none), with the message err and args[0], fatal
raising(env, raised, fatal, err) ==
    [env |-> env, val |-> "", force |-> FALSE, err |-> err, raised |-> raised,
     fatal |-> fatal]

\* a value, or a primError(False, err) for err # ""
returned(env, v, force, err) ==
    [env |-> env, val |-> v, force |-> force, err |-> err,
     raised |-> IF err = "" THEN "" ELSE "primError", fatal |-> FALSE]

\* form.find(name).<method>, r the [f, val, force] of the method
onform(env, name, r) == returned([env EXCEPT !.forms[name] = r.f], r.val, r.force, "")

\* form.deletedef, r its [forms, err]
ondeleted(env, r) == returned([env EXCEPT !.forms = r.forms], "", FALSE, r.err)

\* the mathprim registrations
mathprims == {"ad", "su", "ml", "dv", "rm"}

mathfn(pname, x, y) ==
    CASE pname = "ad" -> x + y
      [] pname = "su" -> x - y
      [] pname = "ml" -> x * y
      [] pname = "dv" -> floordiv(x, y)
      [] pname = "rm" -> modulo(x, y)

\* mathprim.__call__ after fixargs: x // 0 and x % 0 raise ZeroDivisionError
mathcall(pname, a, env) ==
    IF pname \in {"dv", "rm"} /\ tracint(a[2]) = 0
    THEN returned(env, a[3], TRUE, "")
    ELSE returned(env, parsenum(a[1]).prefix
                       \o itoa(mathfn(pname, parsenum(a[1]).n, tracint(a[2]))),
                  FALSE, "")

\* faulty variant: the two arguments taken for each other
niprim_swapped(a, env) == IF env.aic THEN a[1] ELSE a[2]

\* ni: lambda x,y: y if activeImpliedCall else x
niprim(a, env) == IF env.aic THEN a[2] ELSE a[1]

\* prim.condTMA(args, num): the message of the primError, "" for none
condTMA(args, num, env) ==
    IF Len(args) > num /\ unforgiving(env)
    THEN "too many arguments: has " \o itoa(Len(args)) \o ", expecting " \o itoa(num)
    ELSE ""

\* prim.condTMA(args, num, atmost=True)
condTMAatmost(args, num, env) ==
    IF Len(args) > num /\ unforgiving(env)
    THEN "too many arguments: has " \o itoa(Len(args)) \o ", expecting at most "
         \o itoa(num)
    ELSE ""

Letters == Lowers \o Uppers
isletter(c) == strfind(Letters, c, 0) >= 0

\* SwitchBank.flip on swextended, m its switches with the message err: the
\* switches before the first part that sre does not match are set, a letter
\* other than p and u makes a switch nothing reads
RECURSIVE flip(_, _)
flip(m, s) ==
    IF s = "" THEN [mode |-> m, err |-> ""]
    ELSE IF CharAt(s, 0) \in {"+", "-"} /\ Len(s) > 1 /\ isletter(CharAt(s, 1))
    THEN flip(IF lower(CharAt(s, 1)) = "p" THEN [m EXCEPT !.p = CharAt(s, 0) # "-"]
              ELSE IF lower(CharAt(s, 1)) = "u" THEN [m EXCEPT !.u = CharAt(s, 0) # "-"]
              ELSE m,
              StrFrom(s, 2))
    ELSE IF isletter(CharAt(s, 0))
    THEN flip(IF lower(CharAt(s, 0)) = "p" THEN [m EXCEPT !.p = TRUE]
              ELSE IF lower(CharAt(s, 0)) = "u" THEN [m EXCEPT !.u = TRUE]
              ELSE m,
              StrFrom(s, 1))
    ELSE [mode |-> m, err |-> "unrecognizable switch string: " \o s]

flipped(env, r) == returned([env EXCEPT !.mode = r.mode], "", FALSE, r.err)

\* the characters with the codes 32 to 95 and 97 to 126, in the order of
\* their codes
Printing == " !\"#$%&'()*+,-./0123456789:;<=>?@ABCDEFGHIJKLMNOPQRSTUVWXYZ[\\]^_"
PrintingLow == "abcdefghijklmnopqrstuvwxyz{|}~"

\* the character with the code 127
DEL == ""

\* ord(c), of the characters up to the code 127 that a string of the model holds
ord(c) ==
    IF c = "\t" THEN 9
    ELSE IF c = "\n" THEN 10
    ELSE IF c = DEL THEN 127
    ELSE IF \E i \in 1..Len(Printing) : SubSeq(Printing, i, i) = c
    THEN 31 + (CHOOSE i \in 1..Len(Printing) : SubSeq(Printing, i, i) = c)
    ELSE 96 + (CHOOSE i \in 1..Len(PrintingLow) : SubSeq(PrintingLow, i, i) = c)

\* specchar.set(new, exclude): what it raises, "" when the character is changed
specset(new, exclude) ==
    IF new = "" THEN "cannot change to null string"
    ELSE IF CharAt(new, 0) \in {"(", ")", exclude}
    THEN "cannot change to '" \o CharAt(new, 0) \o "'"
    ELSE IF (ord(CharAt(new, 0)) < 32 /\ CharAt(new, 0) # "\n") \/ ord(CharAt(new, 0)) > 126
    THEN "cannot change to non-printing character"
    ELSE ""

\* syntclass.set(new, exclude)
setsynt(new, exclude, env) ==
    IF specset(new, exclude) # "" THEN returned(env, "", FALSE, specset(new, exclude))
    ELSE returned([env EXCEPT !.syntchar = CharAt(new, 0)], "", FALSE, "")

\* Mode.setmode, but for #(mo,rt,..) and #(mo,s), which no call of the model
\* makes
setmode(a, env) ==
    IF a = <<>> THEN returned([env EXCEPT !.mode.extended = FALSE], "", FALSE, "")
    ELSE IF lower(a[1]) = "e"
    THEN IF condTMA(a, 1, env) # "" THEN returned(env, "", FALSE, condTMA(a, 1, env))
         ELSE returned([env EXCEPT !.mode.extended = TRUE], "", FALSE, "")
    ELSE IF lower(a[1]) = "ms"
    THEN IF condTMA(a, 2, env) # "" THEN returned(env, "", FALSE, condTMA(a, 2, env))
         ELSE setsynt(IF Len(a) = 1 THEN "" ELSE a[2], env.metachar, env)
    ELSE IF lower(a[1]) = "s" /\ Len(a) > 1
    THEN IF condTMA(a, 2, env) # "" THEN returned(env, "", FALSE, condTMA(a, 2, env))
         ELSE flipped(env, flip(env.mode, a[2]))
    ELSE returned(env, "", FALSE, "unrecognized mode: " \o lower(a[1]))

\* specchar.set(new, exclude) on the meta character
setmeta(new, exclude, env) ==
    IF specset(new, exclude) # "" THEN returned(env, "", FALSE, specset(new, exclude))
    ELSE returned([env EXCEPT !.metachar = CharAt(new, 0)], "", FALSE, "")

\* str(chunk), str(form): the form pointer is shown as <^>
chunkstr(c) ==
    CASE c.kind = "text" ->
            IF c.pointer = -1 THEN c.text
            ELSE StrSlice(c.text, 0, c.pointer) \o "<^>" \o StrFrom(c.text, c.pointer)
      [] c.kind = "gap" ->
            (IF c.pointer = 0 THEN "<^>" ELSE "") \o "<" \o itoa(c.gapno + 1) \o ">"
      [] c.kind = "end" -> IF c.pointer = 0 THEN "<^>" ELSE ""

RECURSIVE formstr(_)
formstr(formlist) ==
    IF formlist = <<>> THEN "" ELSE chunkstr(Head(formlist)) \o formstr(Tail(formlist))

\* faulty variant: the string read before the interrupt is put in the history
readstr_logged(a, env) ==
    IF condTMA(a, 0, env) # "" THEN returned(env, "", FALSE, condTMA(a, 0, env))
    ELSE CASE env.key = "meta" ->
                 returned([env EXCEPT !.rshistory = @ + 1], env.input, FALSE, "")
           [] env.key = "^D" -> raising(env, "tracHalt", FALSE, "")
           [] env.key = "^C" ->
                 raising([env EXCEPT !.rshistory = @ + 1], "KeyboardInterrupt", FALSE, "")
           [] env.key = "poll" ->
                 raising(env, "termError", FALSE,
                         "Value '  ' from device poll is not well-formed.")

\* tc.readstr(*args): the text typed up to the meta character, or what the key
\* that ended the reading raises (^D stands for the end of the input as well,
\* poll for an answer to a device poll of the ANSI console that is not well-formed)
readstr(a, env) ==
    IF condTMA(a, 0, env) # "" THEN returned(env, "", FALSE, condTMA(a, 0, env))
    ELSE CASE env.key = "meta" ->
                 returned([env EXCEPT !.rshistory = @ + 1], env.input, FALSE, "")
           [] env.key = "^D" -> raising(env, "tracHalt", FALSE, "")
           [] env.key = "^C" -> raising(env, "KeyboardInterrupt", FALSE, "")
           [] env.key = "poll" ->
                 raising(env, "termError", FALSE,
                         "Value '  ' from device poll is not well-formed.")

\* tc.readch(): inkey hands back the first key struck, return for the meta
\* character struck at once, or raises what ^C and ^D raise
readch(env) ==
    CASE env.key = "^D" -> raising(env, "tracHalt", FALSE, "")
      [] env.key = "^C" -> raising(env, "KeyboardInterrupt", FALSE, "")
      [] OTHER -> returned(env, IF env.input = "" THEN "\n" ELSE CharAt(env.input, 0),
                           FALSE, "")

\* str(e) of the IOError or OSError on path
IOError(errno, path) ==
    "[Errno " \o errno \o "] "
    \o (IF errno = "2" THEN "No such file or directory" ELSE "Permission denied")
    \o ": '" \o path \o "'"

\* faulty variant: a form is written every time it is listed
RECURSIVE sblist_dup(_, _, _, _)
sblist_dup(names, fs, unf, got) ==
    IF names = <<>> THEN [names |-> got, err |-> ""]
    ELSE IF Head(names) \in DOMAIN fs
    THEN sblist_dup(Tail(names), fs, unf, Append(got, Head(names)))
    ELSE IF unf THEN [names |-> got, err |-> FNFError(Head(names))]
    ELSE sblist_dup(Tail(names), fs, unf, got)

\* block.store, the loop over args[1:]: the names of sblist, with the message
\* of form.FNFError
RECURSIVE sblist(_, _, _, _)
sblist(names, fs, unf, got) ==
    IF names = <<>> THEN [names |-> got, err |-> ""]
    ELSE IF Head(names) \in DOMAIN fs
    THEN sblist(Tail(names), fs, unf,
                IF \E i \in 1..Len(got) : got[i] = Head(names) THEN got
                ELSE Append(got, Head(names)))
    ELSE IF unf THEN [names |-> got, err |-> FNFError(Head(names))]
    ELSE sblist(Tail(names), fs, unf, got)

\* pickle.dump(sblist, out): of each form its class's attributes name, formlist
\* and chunkp, of each chunk its class and attributes
dumpchunk(c) ==
    CASE c.kind = "text" -> <<"textchunk", c.text, c.pointer>>
      [] c.kind = "gap" -> <<"gapchunk", c.gapno, c.pointer>>
      [] c.kind = "end" -> <<"endchunk", c.pointer>>

dumpform(name, f) ==
    <<name, [i \in 1..Len(f.formlist) |-> dumpchunk(f.formlist[i])], f.chunkp>>

pickled(names, fs) == [i \in 1..Len(names) |-> dumpform(names[i], fs[names[i]])]

\* faulty variant: the chunks are read back without the form pointer
loadchunk_nopointer(t) ==
    CASE t[1] = "textchunk" -> [kind |-> "text", text |-> t[2], gapno |-> -1, pointer |-> -1]
      [] t[1] = "gapchunk" -> [kind |-> "gap", text |-> "", gapno |-> t[2], pointer |-> -1]
      [] t[1] = "endchunk" -> [kind |-> "end", text |-> "", gapno |-> -1, pointer |-> -1]

\* pickle.load(input): the forms with the names they go by
loadchunk(t) ==
    CASE t[1] = "textchunk" -> [kind |-> "text", text |-> t[2], gapno |-> -1, pointer |-> t[3]]
      [] t[1] = "gapchunk" -> [kind |-> "gap", text |-> "", gapno |-> t[2], pointer |-> t[3]]
      [] t[1] = "endchunk" -> [kind |-> "end", text |-> "", gapno |-> -1, pointer |-> t[2]]

loadform(t) ==
    [name |-> t[1],
     form |-> [formlist |-> [i \in 1..Len(t[2]) |-> loadchunk(t[2][i])], chunkp |-> t[3]]]

unpickled(stream) == [i \in 1..Len(stream) |-> loadform(stream[i])]

\* the file is written and the forms of sblist are deleted; a file that cannot
\* be opened is left as it was
stored(env, path, names) ==
    IF env.ioerror THEN raising(env, "tracError", TRUE, "<STE> " \o IOError("13", path))
    ELSE returned([env EXCEPT
                      !.files = [p \in DOMAIN env.files \cup {path} |->
                                    IF p = path THEN pickled(names, env.forms)
                                    ELSE env.files[p]],
                      !.forms = [x \in DOMAIN env.forms \ {names[i] : i \in 1..Len(names)}
                                    |-> env.forms[x]]],
                  "", FALSE, "")

\* block.store
store(a, env, r) ==
    IF a = <<>>
    THEN returned(env, "", FALSE, "too few arguments: has 0, expecting 1 or more")
    ELSE IF r.err # "" THEN returned(env, "", FALSE, r.err)
    ELSE stored(env, a[1], r.names)

\* for f in fblist: forms[f.name] = f
fetched(fs, fblist) ==
    [x \in DOMAIN fs \cup {fblist[i].name : i \in 1..Len(fblist)} |->
        IF \E i \in 1..Len(fblist) : fblist[i].name = x
        THEN fblist[CHOOSE i \in 1..Len(fblist) : fblist[i].name = x].form
        ELSE fs[x]]

\* the checks block.fetch and block.erase begin with, and the failure to open
\* or to remove the file: what is raised, "" for none
blockerror(a, env) ==
    IF a = <<>>
    THEN returned(env, "", FALSE, "too few arguments: has 0, expecting 1")
    ELSE IF condTMA(a, 1, env) # "" THEN returned(env, "", FALSE, condTMA(a, 1, env))
    ELSE IF a[1] \notin DOMAIN env.files
    THEN raising(env, "tracError", TRUE, "<STE> " \o IOError("2", a[1]))
    ELSE IF env.ioerror
    THEN raising(env, "tracError", TRUE, "<STE> " \o IOError("13", a[1]))
    ELSE returned(env, "", FALSE, "")

\* block.fetch
fetch(a, env) ==
    IF blockerror(a, env).raised # "" THEN blockerror(a, env)
    ELSE returned([env EXCEPT !.forms = fetched(env.forms, unpickled(env.files[a[1]]))],
                  "", FALSE, "")

\* block.erase
erase(a, env) ==
    IF blockerror(a, env).raised # "" THEN blockerror(a, env)
    ELSE returned([env EXCEPT !.files = [p \in DOMAIN env.files \ {a[1]} |-> env.files[p]]],
                  "", FALSE, "")

\* boolprim.parsebool: boolre is ([0-7]*)\Z, so group 1 is the run of octal
\* digits that ends arg
Octs == "01234567"

RECURSIVE octrun(_)
octrun(s) ==
    IF s # "" /\ strfind(Octs, CharAt(s, Len(s) - 1), 0) >= 0
    THEN 1 + octrun(SubSeq(s, 1, Len(s) - 1))
    ELSE 0

\* int(octalstr, 8), 0 for ''
RECURSIVE octtoint(_)
octtoint(s) ==
    IF s = "" THEN 0
    ELSE 8 * octtoint(SubSeq(s, 1, Len(s) - 1)) + strfind(Octs, CharAt(s, Len(s) - 1), 0)

parsebool(arg) ==
    [bits |-> octtoint(StrFrom(arg, Len(arg) - octrun(arg))), l |-> octrun(arg)]

\* '{:o}'.format(bits)
RECURSIVE octstr(_)
octstr(n) == IF n < 8 THEN CharAt(Octs, n) ELSE octstr(n \div 8) \o CharAt(Octs, n % 8)

RECURSIVE zeros(_)
zeros(n) == IF n <= 0 THEN "" ELSE "0" \o zeros(n - 1)

\* boolprim.tooct: '{:0<width>o}'.format(bits), '' for width 0
tooct(bits, width) ==
    IF width = 0 THEN "" ELSE zeros(width - Len(octstr(bits))) \o octstr(bits)

\* boolprim.mask
mask(len) == 2 ^ (len * 3) - 1

\* a | b and a & b of integers that are not negative
RECURSIVE bitor(_, _)
bitor(a, b) ==
    IF a = 0 THEN b ELSE IF b = 0 THEN a
    ELSE Max(a % 2, b % 2) + 2 * bitor(a \div 2, b \div 2)

RECURSIVE bitand(_, _)
bitand(a, b) ==
    IF a = 0 \/ b = 0 THEN 0
    ELSE (a % 2) * (b % 2) + 2 * bitand(a \div 2, b \div 2)

Min(a, b) == IF a <= b THEN a ELSE b

\* boolprim.union, intersection, complement on the operands parsed
union(p1, p2) == tooct(bitor(p1.bits, p2.bits), Max(p1.l, p2.l))
intersection(p1, p2) == tooct(bitand(p1.bits, p2.bits), Min(p1.l, p2.l))
\* mask(len) & ~val, val being at most mask(len)
complement(p) == tooct(mask(p.l) - p.bits, p.l)

\* faulty variant: the bits shifted out at the left are kept
shift_unmasked(n, p) ==
    IF n >= 0 THEN tooct(IF n < p.l * 3 THEN p.bits * 2 ^ n ELSE 0, p.l)
    ELSE tooct(IF -n < p.l * 3 THEN p.bits \div 2 ^ (-n) ELSE 0, p.l)

\* boolprim.shift, n the number parsed
shift(n, p) ==
    IF n >= 0
    THEN tooct(IF n < p.l * 3 THEN bitand(p.bits * 2 ^ n, mask(p.l)) ELSE 0, p.l)
    ELSE tooct(IF -n < p.l * 3 THEN p.bits \div 2 ^ (-n) ELSE 0, p.l)

\* boolprim.rotate past n % nbits, rotleft its result
rotated(rotleft, p) ==
    tooct(bitor(bitand(p.bits * 2 ^ rotleft, mask(p.l)),
                p.bits \div 2 ^ (p.l * 3 - rotleft)),
          p.l)

\* boolprim.rotate: n % nbits raises ZeroDivisionError for nbits = 0
rotate(n, p, env) ==
    IF p.l * 3 = 0 THEN raising(env, "ZeroDivisionError", FALSE, "")
    ELSE returned(env, rotated(modulo(n, p.l * 3), p), FALSE, "")

boolprims == {"bu", "bi", "bc", "br", "bs"}

\* self.fn(*args) on the environment env = [forms, aic, mode, metachar, syntchar, files,
\* received, printed, input, key, ioerror], input the string the console reads
\* next, key what ends it, ioerror whether the file system refuses the next call; the primitives not
\* listed are not modelled, and no call of the model names them
primfn(pname, a, env) ==
    CASE pname \in formprims ->
            IF a[1] \in DOMAIN env.forms
            THEN onform(env, a[1], formfn(pname, env.forms[a[1]], a))
            ELSE returned(env, "", FALSE, FNFError(a[1]))
      [] pname = "ds" ->
            returned([env EXCEPT !.forms = [x \in DOMAIN env.forms \cup {a[1]} |->
                                        IF x = a[1] THEN newform(a[2]) ELSE env.forms[x]]],
                     "", FALSE, "")
      [] pname = "dd" -> ondeleted(env, deletedef(env.forms, a, unforgiving(env)))
      [] pname = "da" -> returned([env EXCEPT !.forms = deleteall], "", FALSE, "")
      [] pname = "ni" -> returned(env, niprim(a, env), FALSE, "")
      [] pname \in mathprims -> mathcall(pname, a, env)
      [] pname = "eq" -> returned(env, IF a[1] = a[2] THEN a[3] ELSE a[4], FALSE, "")
      [] pname = "gr" ->
            returned(env, IF tracint(a[1]) > tracint(a[2]) THEN a[3] ELSE a[4], FALSE, "")
      [] pname = "ps" -> returned([env EXCEPT !.printed = @ \o a[1]], "", FALSE, "")
      [] pname = "rs" -> readstr(a, env)
      [] pname = "rc" -> readch(env)
      [] pname = "mo" -> setmode(a, env)
      [] pname = "cm" -> setmeta(a[1], env.syntchar, env)
      [] pname = "pf" ->
            IF a[1] \in DOMAIN env.forms
            THEN returned([env EXCEPT !.printed = @ \o formstr(env.forms[a[1]].formlist)
                                                   \o "\n"],
                          "", FALSE, "")
            ELSE returned(env, "", FALSE, FNFError(a[1]))
      [] pname = "hl" -> raising(env, "tracHalt", FALSE, "")
      [] pname = "tn" -> returned([env EXCEPT !.tracing = TRUE], "", FALSE, "")
      [] pname = "tf" -> returned([env EXCEPT !.tracing = FALSE], "", FALSE, "")
      [] pname = "bu" -> returned(env, union(parsebool(a[1]), parsebool(a[2])), FALSE, "")
      [] pname = "bi" ->
            returned(env, intersection(parsebool(a[1]), parsebool(a[2])), FALSE, "")
      [] pname = "bc" -> returned(env, complement(parsebool(a[1])), FALSE, "")
      [] pname = "br" -> rotate(tracint(a[1]), parsebool(a[2]), env)
      [] pname = "bs" -> returned(env, shift(tracint(a[1]), parsebool(a[2])), FALSE, "")
      [] pname = "sb" ->
            store(a, env, sblist(IF a = <<>> THEN <<>> ELSE Tail(a), env.forms,
                                 unforgiving(env), <<>>))
      [] pname = "fb" -> fetch(a, env)
      [] pname = "eb" -> erase(a, env)
      [] OTHER -> returned(env, "", FALSE, "")

\* prim.fixargs in unforgiving mode on l arguments: the message of the primError
\* of prim.TFAError or prim.TMAError, "" for none
argerror(p, l) ==
    IF l < p.minargs
    THEN "too few arguments: has " \o itoa(l) \o ", expecting " \o itoa(p.minargs)
         \o (IF p.minargs # p.maxargs THEN " or more" ELSE "")
    ELSE IF p.maxargs >= 0 /\ l > p.maxargs
    THEN "too many arguments: has " \o itoa(l) \o ", expecting " \o itoa(p.maxargs)
    ELSE ""

\* prim.__call__ in forgiving mode: a primError that is not fatal gives ''
forgiven(r) == [r EXCEPT !.val = "", !.force = FALSE, !.raised = ""]

\* faulty variant: the primError is dropped in either mode
caught_silent(pname, r) == IF r.raised # "primError" THEN r ELSE forgiven(r)

\* prim.__call__, except primError: the mode is the one the body left
caught(pname, r) ==
    IF r.raised # "primError" THEN r
    ELSE IF unforgiving(r.env) \/ r.fatal
    THEN raising(r.env, "tracError", TRUE, "<UNF> (" \o pname \o ") " \o r.err)
    ELSE forgiven(r)

\* self.fn(*args) on the arguments fixargs hands back
ran(pname, a, env) == primfn(pname, a, [env EXCEPT !.received = a])

\* prim.__call__, and mathprim.__call__, which calls fixargs outside of a try
primcall(pname, args, env) ==
    IF unforgiving(env) /\ argerror(prims[pname], Len(args)) # ""
    THEN IF pname \in mathprims
         THEN raising(env, "primError", FALSE, argerror(prims[pname], Len(args)))
         ELSE caught(pname, raising(env, "primError", FALSE,
                                    argerror(prims[pname], Len(args))))
    ELSE caught(pname, ran(pname, fixargs(prims[pname], args), env))

-----------------------------------------------------------------------------
(* The primitives called one at a time on the form store *)

Env == [forms |-> forms, aic |-> activeImpliedCall, mode |-> mode, metachar |-> metachar,
        syntchar |-> syntchar, tracing |-> tracing, line |-> "\n",
        rshistory |-> rshistory, inbuf |-> inbuf,
        files |-> files, received |-> received, printed |-> printed, input |-> "",
        key |-> "meta", ioerror |-> FALSE]

Default == "d"
OtherBody == "b"
SegArgs == {<<"a">>, <<"b">>, <<"ab">>, <<"aa">>, <<"", "b">>, <<"a", "b">>}
ClArgs == {<<>>, <<"x">>, <<"x", "y">>}
InTexts == {"", "b", "ab", "aa"}
DdArgs == {<<"f">>, <<"g">>, <<"g", "f">>}

NumStrs ==
    {"0", "-0", "+2"} \cup {itoa(k) : k \in 1..MaxLen} \cup {itoa(-k) : k \in 1..MaxLen}

atleft(f) == f.chunkp = 0 /\ f.formlist[1].pointer = 0

\* faulty variant: the extended primitives are primitives in every mode
isprim_any(pname, env) == pname \in DOMAIN prims

\* eval: the name is dispatched as a primitive
isprim(pname, env) ==
    pname \in DOMAIN prims /\ (extprim(env) \/ ~prims[pname].extended)

\* dispatch of primitive pname on args in the environment env, recorded in last
CallIn(pname, args, env) ==
    \E r \in {primcall(pname, args, env)} :
        /\ forms' = r.env.forms
        /\ activeImpliedCall' = r.env.aic
        /\ mode' = r.env.mode
        /\ metachar' = r.env.metachar
        /\ syntchar' = r.env.syntchar
        /\ tracing' = r.env.tracing
        /\ rshistory' = r.env.rshistory
        /\ inbuf' = r.env.inbuf
        /\ UNCHANGED <<stdin, tcinp>>
        /\ files' = r.env.files
        /\ received' = r.env.received
        /\ last' = [op |-> pname, args |-> args, val |-> r.val, force |-> r.force,
                    err |-> r.err, raised |-> r.raised,
                    wasleft |-> IF args # <<>> /\ args[1] \in DOMAIN forms
                                THEN atleft(forms[args[1]]) ELSE FALSE]
        /\ UNCHANGED scanvars

Call(pname, args) == CallIn(pname, args, Env)

DS ==
    \E n \in Names, s \in Strs :
        /\ isprim("ds", Env)
        /\ Call("ds", <<n, s>>)

SS ==
    \E n \in Names, a \in SegArgs :
        /\ isprim("ss", Env)
        /\ Call("ss", <<n>> \o a)

CL ==
    \E n \in Names \cup Others, a \in ClArgs :
        /\ isprim("cl", Env)
        /\ Call("cl", <<n>> \o a)

CR ==
    \E n \in Names :
        /\ isprim("cr", Env)
        /\ Call("cr", <<n>>)

CC ==
    \E n \in Names :
        /\ isprim("cc", Env)
        /\ Call("cc", <<n, Default>>)

CS ==
    \E n \in Names :
        /\ isprim("cs", Env)
        /\ Call("cs", <<n, Default>>)

CN ==
    \E n \in Names, num \in NumStrs :
        /\ isprim("cn", Env)
        /\ Call("cn", <<n, num, Default>>)

IN_ ==
    \E n \in Names, t \in InTexts :
        /\ isprim("in", Env)
        /\ Call("in", <<n, t, Default>>)

DSOther ==
    \E n \in Others :
        /\ isprim("ds", Env)
        /\ Call("ds", <<n, OtherBody>>)

DD ==
    \E a \in DdArgs :
        /\ isprim("dd", Env)
        /\ Call("dd", a)

DA ==
    /\ isprim("da", Env)
    /\ Call("da", <<>>)

\* no call dispatched yet in this round
nodisp ==
    [id |-> 0, op |-> "", args |-> <<>>, act |-> FALSE, implied |-> FALSE, val |-> "",
     res |-> FALSE, inbody |-> "none", lastimplied |-> "none", line |-> ""]

\* no InputString yet: main sets tc, and readstr of the ANSI console makes one
noinput ==
    [rstring |-> "", inspoint |-> 0, carriagepos |-> 0, cols |-> 80, editing |-> FALSE,
     fresh |-> FALSE]

Init ==
    /\ forms = [x \in {} |-> x]
    /\ activeImpliedCall = FALSE
    /\ last = [op |-> "", args |-> <<>>, val |-> "", force |-> FALSE, err |-> "",
               raised |-> "", wasleft |-> FALSE]
    /\ pc = "idle"
    /\ active = ""
    /\ stack = <<>>
    /\ printed = ""
    /\ rounds = 0
    /\ opened = 0
    /\ dispatched = <<>>
    /\ bodies = <<>>
    /\ lastimplied = "none"
    /\ disp = nodisp
    /\ mode = [extended |-> TRUE, p |-> TRUE, u |-> FALSE]
    /\ metachar = "'"
    /\ syntchar = "#"
    /\ tracing = FALSE
    /\ rshistory = 0
    /\ inbuf = ""
    /\ stdin = <<>>
    /\ tcinp = noinput
    /\ files = [x \in {} |-> x]
    /\ received = <<>>
    /\ validated = 0

Next == DS \/ SS \/ CL \/ CR \/ CC \/ CS \/ CN \/ IN_ \/ DSOther \/ DD \/ DA

Spec == Init /\ [][Next]_vars

\* cc called over and over: once cc has been called, nothing but cc is called,
\* and it is called again
Setup == last.op # "cc" /\ Next
Drain == last.op = "cc" /\ CC

NextCC == Setup \/ Drain

SpecCC == Init /\ [][NextCC]_vars /\ WF_vars(Drain)

-----------------------------------------------------------------------------
(* prim.__call__ up to the call of the body, on every primitive *)

MaxArgs == 5
ArgStrs == {"", "x"}

ArgLists == UNION {[1..n -> ArgStrs] : n \in 0..MaxArgs}

\* try: args = self.fixargs(*args), of the first call made, in the mode with the
\* switch u
FixArgs ==
    \E pname \in DOMAIN prims, args \in ArgLists, u \in BOOLEAN :
        /\ pc = "idle" /\ last.op = ""
        /\ mode' = [mode EXCEPT !.u = u]
        /\ \E err \in {IF u THEN argerror(prims[pname], Len(args)) ELSE ""} :
              /\ last' = [op |-> pname, args |-> args, val |-> "", force |-> FALSE,
                          err |-> err,
                          raised |-> IF err = "" THEN "" ELSE "primError",
                          wasleft |-> FALSE]
              /\ received' = IF err = "" THEN fixargs(prims[pname], args) ELSE received
        /\ UNCHANGED <<forms, activeImpliedCall, metachar, syntchar, tracing, rshistory,
                       inbuf, stdin, tcinp, files, scanvars>>

SpecArgs == Init /\ [][FixArgs]_vars

-----------------------------------------------------------------------------
(* The arithmetic primitives on arguments put together from a prefix, a sign *)
(* and decimal digits                                                         *)

Prefixes == {"", "x", "3x"}
Signs == {"", "+", "-"}
\* digit strings with the numbers they write
Numerals == {[s |-> "", v |-> 0], [s |-> "0", v |-> 0], [s |-> "7", v |-> 7],
             [s |-> "12", v |-> 12]}
NumArgs == {p \o s \o d.s : p \in Prefixes, s \in Signs, d \in Numerals}

\* the first call made is one of ad, su, ml, dv, rm
Arith ==
    \E pname \in mathprims, x \in NumArgs, y \in NumArgs :
        /\ pc = "idle" /\ last.op = ""
        /\ isprim(pname, Env)
        /\ Call(pname, <<x, y, Default>>)

SpecMath == Init /\ [][Arith]_vars

-----------------------------------------------------------------------------
(* The Boolean primitives on operands put together from a prefix and octal *)
(* digits                                                                   *)

BoolPrefixes == {"", "x", "8"}
\* octal digit strings with their lengths and the numbers they write
Octals == {[s |-> "", l |-> 0, v |-> 0], [s |-> "0", l |-> 1, v |-> 0],
           [s |-> "5", l |-> 1, v |-> 5], [s |-> "7", l |-> 1, v |-> 7],
           [s |-> "03", l |-> 2, v |-> 3], [s |-> "52", l |-> 2, v |-> 42],
           [s |-> "64", l |-> 2, v |-> 52]}
BoolArgs == {p \o o.s : p \in BoolPrefixes, o \in Octals}
\* the numbers of places, as they are written
Places == {[s |-> "", v |-> 0], [s |-> "0", v |-> 0], [s |-> "1", v |-> 1],
           [s |-> "x2", v |-> 2], [s |-> "3", v |-> 3], [s |-> "5", v |-> 5],
           [s |-> "6", v |-> 6], [s |-> "7", v |-> 7], [s |-> "-1", v |-> -1],
           [s |-> "-2", v |-> -2], [s |-> "-3", v |-> -3], [s |-> "-5", v |-> -5],
           [s |-> "-6", v |-> -6], [s |-> "-7", v |-> -7]}

\* the first call made is bu or bi
Bool2 ==
    \E pname \in {"bu", "bi"}, x \in BoolArgs, y \in BoolArgs :
        /\ pc = "idle" /\ last.op = ""
        /\ isprim(pname, Env)
        /\ Call(pname, <<x, y>>)

\* the first call made is bc
Bool1 ==
    \E x \in BoolArgs :
        /\ pc = "idle" /\ last.op = ""
        /\ isprim("bc", Env)
        /\ Call("bc", <<x>>)

\* the first call made is br or bs
BoolPlaces ==
    \E pname \in {"br", "bs"}, d \in Places, x \in BoolArgs :
        /\ pc = "idle" /\ last.op = ""
        /\ isprim(pname, Env)
        /\ Call(pname, <<d.s, x>>)

NextBool == Bool2 \/ Bool1 \/ BoolPlaces

SpecBool == Init /\ [][NextBool]_vars

-----------------------------------------------------------------------------
(* The block primitives: two forms, one file written and read, one file never *)
(* written; the file system may refuse any call                               *)

Path == "p"
NoPath == "q"
SbNames == {<<>>, <<"f">>, <<"f", "g">>, <<"g", "f", "g">>, <<"f", "h">>}

BlockDS ==
    \E a \in {<<"f", "ab">>, <<"f", "c">>, <<"g", "b">>} :
        /\ isprim("ds", Env)
        /\ Call("ds", a)

BlockSS ==
    /\ isprim("ss", Env)
    /\ Call("ss", <<"f", "a">>)

BlockCC ==
    /\ isprim("cc", Env)
    /\ Call("cc", <<"f", Default>>)

\* #(mo,s,+u), #(mo,s,-u)
BlockMO ==
    \E s \in {"+u", "-u"} :
        /\ isprim("mo", Env)
        /\ Call("mo", <<"s", s>>)

SB ==
    \E names \in SbNames, io \in BOOLEAN :
        /\ isprim("sb", Env)
        /\ CallIn("sb", <<Path>> \o names, [Env EXCEPT !.ioerror = io])

FB ==
    \E path \in {Path, NoPath}, io \in BOOLEAN :
        /\ isprim("fb", Env)
        /\ CallIn("fb", <<path>>, [Env EXCEPT !.ioerror = io])

EB ==
    \E io \in BOOLEAN :
        /\ isprim("eb", Env)
        /\ CallIn("eb", <<Path>>, [Env EXCEPT !.ioerror = io])

NextBlock == BlockDS \/ BlockSS \/ BlockCC \/ BlockMO \/ SB \/ FB \/ EB

SpecBlock == Init /\ [][NextBlock]_vars

-----------------------------------------------------------------------------
(* The special characters: #(mo,ms,c) and #(cm,c) called over and over *)

CharArgs == {"", "(", ")x", "#", "'", ":", ";x", "~", "\n", "\t", DEL}

\* #(mo,ms,c), #(mo,MS,c), #(mo,ms)
MS ==
    \E a \in {<<"ms", c>> : c \in CharArgs} \cup {<<"MS", ":">>, <<"ms">>} :
        /\ isprim("mo", Env)
        /\ Call("mo", a)

\* #(cm,c)
CM ==
    \E c \in CharArgs :
        /\ isprim("cm", Env)
        /\ Call("cm", <<c>>)

NextChars == MS \/ CM \/ BlockMO

SpecChars == Init /\ [][NextChars]_vars

-----------------------------------------------------------------------------
(* The scanner: parse, eval and the main loop psrs *)

\* the characters syntre matches: the class [c(),\n] of setre, in which a
\* backslash c quotes the parenthesis after it and a c that is ^ turns the
\* class into its complement
Synt == {"(", ")", ",", "\n"} \cup (IF syntchar = "\\" THEN {} ELSE {syntchar})
syntre(c) == IF syntchar = "^" THEN c \notin {"(", ")", ",", "\n"} ELSE c \in Synt

\* syntchar.getre().search(s): the index of the leftmost match at or after i, or -1
RECURSIVE syntsearch(_, _)
syntsearch(s, i) ==
    IF i >= Len(s) THEN -1
    ELSE IF syntre(CharAt(s, i)) THEN i
    ELSE syntsearch(s, i + 1)

startswith(s, pre) == Len(s) >= Len(pre) /\ SubSeq(s, 1, Len(pre)) = pre

\* faulty variant: val[1] of a pair is dropped
evalprim_dropsforce(pname, args, r, act) ==
    [env |-> r.env, val |-> r.val, act |-> act, implied |-> FALSE,
     op |-> pname, args |-> args, force |-> r.force, err |-> r.err,
     raised |-> r.raised, fatal |-> r.fatal]

\* eval, the name a primitive, r what prims[pname](*arglist[1:]) handed back:
\* (val, act) for a string, (val[0], act or val[1]) for a pair
evalprim(pname, args, r, act) ==
    [env |-> r.env, val |-> r.val, act |-> act \/ r.force, implied |-> FALSE,
     op |-> pname, args |-> args, force |-> r.force, err |-> r.err,
     raised |-> r.raised, fatal |-> r.fatal]

\* faulty variant: the value of an implied call is as active as the call
evalimplied_asis(arglist, r) ==
    [env |-> r.env, val |-> r.val, act |-> r.env.aic, implied |-> TRUE,
     op |-> "cl", args |-> arglist, force |-> r.force, err |-> r.err,
     raised |-> r.raised, fatal |-> r.fatal]

\* eval, the implied call: r what prims['cl'](*arglist) handed back
evalimplied(arglist, r) ==
    [env |-> r.env, val |-> r.val, act |-> TRUE, implied |-> TRUE,
     op |-> "cl", args |-> arglist, force |-> r.force, err |-> r.err,
     raised |-> r.raised, fatal |-> r.fatal]

\* faulty variant: an active implied call keeps the flag set through the
\* implied calls that follow
evalcall_kept(arglist, act, env) ==
    IF isprim(lower(arglist[1]), env)
    THEN evalprim(lower(arglist[1]), Tail(arglist),
                  primcall(lower(arglist[1]), Tail(arglist), env), act)
    ELSE evalimplied(arglist, primcall("cl", arglist, [env EXCEPT !.aic = @ \/ act]))

\* eval from `pname = arglist[0].lower()` on
evalcall(arglist, act, env) ==
    IF isprim(lower(arglist[1]), env)
    THEN evalprim(lower(arglist[1]), Tail(arglist),
                  primcall(lower(arglist[1]), Tail(arglist), env), act)
    ELSE evalimplied(arglist, primcall("cl", arglist, [env EXCEPT !.aic = act]))

\* eval, trace on: what it prints before it reads a line
RECURSIVE tracedargs(_)
tracedargs(args) ==
    IF args = <<>> THEN "" ELSE "* " \o Head(args) \o " " \o tracedargs(Tail(args))

traceline(arglist, act, env) ==
    (IF act THEN env.syntchar \o "/" ELSE env.syntchar \o env.syntchar \o "/")
        \o " " \o arglist[1] \o " " \o tracedargs(Tail(arglist)) \o "/ "

\* eval, trace on and the line read not empty: trace(False); raise
\* KeyboardInterrupt
evalcancelled(arglist, act, env) ==
    [env |-> [env EXCEPT !.tracing = FALSE], val |-> "", act |-> act, implied |-> FALSE,
     op |-> lower(arglist[1]), args |-> Tail(arglist), force |-> FALSE, err |-> "",
     raised |-> "KeyboardInterrupt", fatal |-> FALSE]

\* e what eval handed back or raised, line the line it read first ("" for none)
readline(e, line) ==
    [env |-> e.env, val |-> e.val, act |-> e.act, implied |-> e.implied, op |-> e.op,
     args |-> e.args, force |-> e.force, err |-> e.err, raised |-> e.raised,
     fatal |-> e.fatal, line |-> line]

\* faulty variant: an eval that never traces
eval_untraced(arglist, act, env) == readline(evalcall(arglist, act, env), "")

\* eval; env.line is the line the user types when eval reads one
eval(arglist, act, env) ==
    IF ~env.tracing THEN readline(evalcall(arglist, act, env), "")
    ELSE IF env.line = "\n"
    THEN readline(evalcall(arglist, act, [env EXCEPT !.printed = @ \o traceline(arglist, act, env)]),
                  env.line)
    ELSE readline(evalcancelled(arglist, act,
                                [env EXCEPT !.printed = @ \o traceline(arglist, act, env)]),
                  env.line)

\* the primitives primfn models
modelled ==
    formprims \cup mathprims
        \cup {"ds", "dd", "da", "ni", "eq", "gr", "ps", "rs", "rc", "mo", "cm", "pf",
              "hl",
              "tn", "tf", "sb", "fb", "eb"} \cup boolprims

\* faulty variant: the result of an active call is put after the active string
spliced_behind(act, v, tail) == IF act THEN tail \o v ELSE tail

\* parse, the result of a call: active = result + active, or neutral += result
spliced(act, v, tail) == IF act THEN v \o tail ELSE tail
appended(act, neutral, v) == IF act THEN neutral ELSE neutral \o v

\* a parse call running: its locals neutral and depth, and of the call whose
\* arguments it is gathering: args, activefn, the number of the call in this
\* round (id), the calls open around it (anc) and the implied call whose value
\* the call was read from (inbody)
newframe ==
    [neutral |-> "", depth |-> 0, args |-> <<>>, activefn |-> FALSE, id |-> 0,
     anc |-> {}, inbody |-> "none"]

gathering(fr, passed, activefn, id, anc, inbody) ==
    [fr EXCEPT !.neutral = passed, !.args = <<>>, !.activefn = activefn, !.id = id,
               !.anc = anc, !.inbody = inbody]

\* the frame of the innermost parse, and the one that called it
top == stack[Len(stack)]
caller == stack[Len(stack) - 1]

\* match = syntre.search(active); ch = match.group();
\* neutral += active[0:match.start()]; active = active[match.end():]
match == syntsearch(active, 0)
ch == CharAt(active, match)
passed == top.neutral \o StrSlice(active, 0, match)
rest == StrFrom(active, match + 1)

settop(fr) == [stack EXCEPT ![Len(stack)] = fr]
\* the innermost parse has returned to its caller, now the frame fr
returnedto(fr) == Append(SubSeq(stack, 1, Len(stack) - 2), fr)

how(act) == IF act THEN "active" ELSE "neutral"

\* the implied-call values not scanned to their end when n characters of the
\* active string are left
alive(bs, n) == SelectSeq(bs, LAMBDA b : b.tail < n)
lastof(bs) == IF bs = <<>> THEN "none" ELSE how(bs[Len(bs)].act)
inbodyat(bs, n) == lastof(alive(bs, n))

\* the main loop: strpsrs, printed with the prompt and handed to parse
strpsrs == syntchar \o "(ps," \o syntchar \o "(rs))"

\* what the user types up to the meta character
Inputs ==
    {"#(ds,f,ab)", "#(ds,f,)", "#(ss,f,a)",
     "##(cc,f,(#(cr,f)))", "#(cc,f,d)", "##(cs,f,d)", "#(cs,f,d)",
     "##(cn,f,1,d)", "##(cn,f,-1,d)", "#(cn,f,1,d)", "##(in,f,b,d)", "##(in,f,x,d)",
     "##(dv,6,0,(#(cl,f)))", "##(dv,6,3,d)", "#(dv,6,3,d)", "##(rm,7,0,d)",
     "##(rm,7,3,d)",
     "#(ds,g,(#(ni,A,B)))", "#(ds,g,(##(h)#(ni,A,B)))", "#(g)", "##(g)",
     "#(NI,A,B)", "##(ni,A)",
     "#(ps,#(cl,f)##(cl,g))", "#(cl,#(eq,#(ad,1,1),2,f,g))x", "##(cl,f)(a(b),\nc)",
     "a,b", "x)", "a#b\n", "#(cl,f", "#"}

Prompt ==
    /\ pc = "idle"
    /\ rounds < MaxRounds
    /\ pc' = "scan"
    /\ active' = strpsrs
    /\ stack' = <<newframe>>
    /\ printed' = strpsrs \o "\n> "
    /\ rounds' = rounds + 1
    /\ opened' = 0
    /\ dispatched' = <<>>
    /\ bodies' = <<>>
    /\ disp' = nodisp
    /\ UNCHANGED <<storevars, lastimplied, validated>>

\* parse is running and syntre matches in the active string
Matched == pc = "scan" /\ stack # <<>> /\ match >= 0

\* ch == syntchar.get(), which parse asks after ch == '\n' and ch == ','
atsynt == ch # "\n" /\ ch # "," /\ ch = syntchar

\* a step of parse that dispatches nothing
Scanned ==
    /\ bodies' = alive(bodies, Len(active'))
    /\ UNCHANGED <<storevars, pc, printed, rounds, opened, dispatched, lastimplied, disp,
                   validated>>

\* ch == '('
ScanOpen ==
    /\ Matched
    /\ ch = "("
    /\ stack' = settop([top EXCEPT !.neutral = IF top.depth > 0 THEN passed \o ch ELSE passed,
                                   !.depth = @ + 1])
    /\ active' = rest
    /\ Scanned

\* depth > 0
ScanProtected ==
    /\ Matched
    /\ ch # "("
    /\ top.depth > 0
    /\ stack' = settop([top EXCEPT !.neutral = IF ch = ")" /\ top.depth = 1 THEN passed
                                                ELSE passed \o ch,
                                   !.depth = IF ch = ")" THEN @ - 1 ELSE @])
    /\ active' = rest
    /\ Scanned

\* faulty variant: the newline is kept
ScanNewline_kept ==
    /\ Matched
    /\ top.depth = 0
    /\ ch = "\n"
    /\ stack' = settop([top EXCEPT !.neutral = passed \o ch])
    /\ active' = rest
    /\ Scanned

\* ch == '\n', stripped
ScanNewline ==
    /\ Matched
    /\ top.depth = 0
    /\ ch = "\n"
    /\ stack' = settop([top EXCEPT !.neutral = passed])
    /\ active' = rest
    /\ Scanned

\* ch the syntax character, and #( or ##( follows: the arguments are gathered
BeginCall ==
    /\ Matched
    /\ top.depth = 0
    /\ atsynt
    /\ Len(stack) < MaxDepth
    /\ \E activefn \in BOOLEAN :
          /\ activefn <=> startswith(rest, "(")
          /\ activefn \/ startswith(rest, syntchar \o "(")
          /\ stack' = Append(settop(gathering(top, passed, activefn, opened + 1,
                                              {stack[i].id : i \in 1..(Len(stack) - 1)},
                                              inbodyat(bodies, Len(active) - match))),
                             newframe)
          /\ active' = StrFrom(rest, IF activefn THEN 1 ELSE 2)
    /\ opened' = opened + 1
    /\ bodies' = alive(bodies, Len(active'))
    /\ UNCHANGED <<storevars, pc, printed, rounds, dispatched, lastimplied, disp,
                   validated>>

\* ch the syntax character with something after it that is not the "(" or
\* syntax character and "(" of a call
ScanSynt ==
    /\ Matched
    /\ top.depth = 0
    /\ atsynt
    /\ rest # ""
    /\ ~startswith(rest, "(")
    /\ ~startswith(rest, syntchar \o "(")
    /\ stack' = settop([top EXCEPT !.neutral = passed \o ch])
    /\ active' = rest
    /\ Scanned

\* ch == ',' in a parse that gathers an argument: the next argument
NextArg ==
    /\ Matched
    /\ Len(stack) > 1
    /\ top.depth = 0
    /\ ch = ","
    /\ stack' = Append(returnedto([caller EXCEPT !.args = Append(@, passed)]), newframe)
    /\ active' = rest
    /\ Scanned

\* eval was handed the call of the frame caller and has handed back, or raised, e
Stored(e) ==
    /\ forms' = e.env.forms
    /\ activeImpliedCall' = e.env.aic
    /\ mode' = e.env.mode
    /\ metachar' = e.env.metachar
    /\ syntchar' = e.env.syntchar
    /\ tracing' = e.env.tracing
    /\ rshistory' = e.env.rshistory
    /\ inbuf' = e.env.inbuf
    /\ UNCHANGED <<stdin, tcinp>>
    /\ files' = e.env.files
    /\ received' = e.env.received
    /\ last' = [op |-> e.op, args |-> e.args, val |-> e.val, force |-> e.force,
                err |-> e.err, raised |-> e.raised,
                wasleft |-> IF e.args # <<>> /\ e.args[1] \in DOMAIN forms
                            THEN atleft(forms[e.args[1]]) ELSE FALSE]
    /\ dispatched' = Append(dispatched, [id |-> caller.id, anc |-> caller.anc])
    /\ disp' = [id |-> caller.id, op |-> e.op, args |-> e.args, act |-> caller.activefn,
                implied |-> e.implied, val |-> e.val, res |-> e.act,
                inbody |-> caller.inbody, lastimplied |-> lastimplied, line |-> e.line]
    /\ lastimplied' = IF e.implied THEN how(caller.activefn) ELSE lastimplied

\* eval has handed back e
Evaluated(e) ==
    /\ e.raised = ""
    /\ Stored(e)
    /\ printed' = e.env.printed
    /\ active' = spliced(e.act, e.val, rest)
    /\ stack' = returnedto([newframe EXCEPT
                               !.neutral = appended(e.act, caller.neutral, e.val)])
    /\ bodies' = alive(IF e.implied
                       THEN Append(bodies, [tail |-> Len(rest), act |-> caller.activefn])
                       ELSE bodies,
                       Len(active'))
    /\ UNCHANGED <<pc, rounds, opened, validated>>

\* the name of the call whose last argument the innermost parse has gathered
calledname == lower(Append(caller.args, passed)[1])

\* the calls of mo that setmode models
modelledcall(arglist) ==
    IF lower(arglist[1]) # "mo" \/ Len(arglist) = 1 THEN TRUE
    ELSE IF lower(arglist[2]) = "s" THEN Len(arglist) > 2
    ELSE lower(arglist[2]) # "rt"

\* ch == ')' in a parse that gathers an argument: eval is handed the call
Dispatchable ==
    /\ Matched
    /\ Len(stack) > 1
    /\ top.depth = 0
    /\ ch = ")"
    /\ isprim(calledname, Env) => calledname \in modelled
    /\ isprim(calledname, Env) => modelledcall(Append(caller.args, passed))

\* eval(args, activefn), the console reading inp ended by key
evaluation(inp, key) ==
    eval(Append(caller.args, passed), caller.activefn,
         [Env EXCEPT !.input = inp, !.key = key])

\* the call is evaluated, the user typing one of Inputs and the meta character
Dispatch ==
    /\ Dispatchable
    /\ \E inp \in (IF calledname = "rs" THEN Inputs ELSE {""}) :
          Evaluated(evaluation(inp, "meta"))

\* psrs: the exception leaves parse, finally: the validate pass (which prints
\* nothing, the forms being valid)
Thrown(out, to) ==
    /\ printed' = out
    /\ pc' = to
    /\ stack' = <<>>
    /\ active' = ""
    /\ bodies' = <<>>
    /\ validated' = validated + 1
    /\ UNCHANGED <<rounds, opened>>

\* faulty variant: every tracError is printed, in forgiving mode too
reported_always(fatal, msg, env) == msg \o "\n"

\* psrs, except tracError: what is printed
reported(fatal, msg, env) == (IF unforgiving(env) \/ fatal THEN msg ELSE "") \o "\n"

\* the round is over: parse is left, the frames are gone
Left(text) ==
    /\ Thrown(printed \o text, "idle")
    /\ UNCHANGED <<storevars, dispatched, lastimplied, disp>>

\* the active string ends inside a call: tracError, the round is given up
Unclosed ==
    /\ pc = "scan"
    /\ Len(stack) > 1
    /\ match = -1
    /\ Left(reported(FALSE, "<UNF> hit end of string while expecting ')'", Env))

\* ''.join(parse(strpsrs)) as the outermost parse returns
remainder == top.neutral \o active

\* the outermost parse returns to psrs: the blank line, and tracError on a
\* remainder
Finish ==
    /\ pc = "scan"
    /\ Len(stack) = 1
    /\ IF match = -1 THEN TRUE ELSE top.depth = 0 /\ ch \in {",", ")"}
    /\ Left("\n" \o (IF remainder = "" THEN ""
                     ELSE reported(FALSE, "<UNF> unbalanced parens: after parsing, "
                                          \o "remainder = " \o remainder, Env)))

NextScan ==
    \/ Prompt \/ ScanOpen \/ ScanProtected \/ ScanNewline \/ BeginCall \/ ScanSynt
    \/ NextArg \/ Dispatch \/ Unclosed \/ Finish

SpecScan == Init /\ [][NextScan]_vars

-----------------------------------------------------------------------------
(* The main loop with errors: the switch u, wrong calls, keys that end the input *)

ErrInputs ==
    {"#(mo,s,+u)", "#(mo,x)\n", "#(ds,f,a)", "#(cl,f)", "#(cr,f,x)", "#(ps,a,b)",
     "#(ad,1)", "##(su,3,1,,x)", "#(cm,)", "#(cm,#)", "#(pf,f)", "#(hl)",
     "#(ds,r,(#(r,#(r))))#(r)", "#(cl,f", "x)", "#(fb,q)", "#(g)"}

\* what the user may do at a read string
Typed ==
    {[input |-> i, key |-> "meta"] : i \in ErrInputs}
        \cup {[input |-> "", key |-> k] : k \in {"^D", "^C", "poll"}}

Reads == IF calledname = "rs" THEN Typed ELSE {[input |-> "", key |-> "meta"]}

\* the call is evaluated
DispatchErr ==
    /\ Dispatchable
    /\ \E t \in Reads : Evaluated(evaluation(t.input, t.key))

\* eval raised e, which psrs handles by printing text
Raised(e, text, to) ==
    /\ Stored(e)
    /\ Thrown(e.env.printed \o text, to)

\* psrs, except tracError
Abort ==
    /\ Dispatchable
    /\ \E t \in Reads : \E e \in {evaluation(t.input, t.key)} :
          /\ e.raised = "tracError"
          /\ Raised(e, reported(e.fatal, e.err, e.env), "idle")

\* psrs, except tracHalt: return
Halt ==
    /\ Dispatchable
    /\ \E t \in Reads : \E e \in {evaluation(t.input, t.key)} :
          /\ e.raised = "tracHalt"
          /\ Raised(e, "", "halted")

\* psrs, except KeyboardInterrupt
Interrupt ==
    /\ Dispatchable
    /\ \E t \in Reads : \E e \in {evaluation(t.input, t.key)} :
          /\ e.raised = "KeyboardInterrupt"
          /\ Raised(e, "<INT>\n", "idle")

\* psrs, except termError
TermError ==
    /\ Dispatchable
    /\ \E t \in Reads : \E e \in {evaluation(t.input, t.key)} :
          /\ e.raised = "termError"
          /\ Raised(e, e.err \o "\n", "idle")

\* an exception psrs has no except clause for: the program ends with a traceback
Crash ==
    /\ Dispatchable
    /\ \E t \in Reads : \E e \in {evaluation(t.input, t.key)} :
          /\ e.raised \in {"primError", "ZeroDivisionError"}
          /\ Raised(e, "", "crashed")

\* psrs, except RuntimeError: parse is called at the recursion limit
Overflow ==
    /\ Matched
    /\ top.depth = 0
    /\ atsynt
    /\ startswith(rest, "(") \/ startswith(rest, syntchar \o "(")
    /\ Len(stack) >= MaxDepth
    /\ Left("<SCE> maximum recursion depth exceeded\n")

NextErr ==
    \/ Prompt \/ ScanOpen \/ ScanProtected \/ ScanNewline \/ BeginCall \/ ScanSynt
    \/ NextArg \/ DispatchErr \/ Abort \/ Halt \/ Interrupt \/ TermError \/ Crash
    \/ Overflow \/ Unclosed \/ Finish

SpecErr == Init /\ [][NextErr]_vars

-----------------------------------------------------------------------------
(* The main loop with the modes: #(mo), #(mo,e), the switches, and calls of the
   extended primitives rm and ni, of forms and of unknown names *)

\* the call is evaluated, the user typing one of inputs and the meta character
DispatchOf(inputs) ==
    /\ Dispatchable
    /\ \E inp \in (IF calledname = "rs" THEN inputs ELSE {""}) :
          Evaluated(evaluation(inp, "meta"))

\* psrs, except tracError, the user typing one of inputs
AbortOf(inputs) ==
    /\ Dispatchable
    /\ \E inp \in (IF calledname = "rs" THEN inputs ELSE {""}) :
          \E e \in {evaluation(inp, "meta")} :
             /\ e.raised = "tracError"
             /\ Raised(e, reported(e.fatal, e.err, e.env), "idle")

ModeInputs ==
    {"#(mo)\n", "#(Mo,E)", "#(mo,s,-p)", "#(mo,s,+u)", "##(rm,7,3)", "#(RM,7,3)#",
     "#(ni,A,B)", "#(ds,rm,(r(x)))", "#(zz,1)", "##(zz)", "#(ds,zz,((a)#(ni,A,B)))",
     "#(cl,f"}

DispatchMode == pc = "scan" /\ DispatchOf(ModeInputs)
AbortMode == pc = "scan" /\ AbortOf(ModeInputs)

NextMode ==
    \/ Prompt \/ ScanOpen \/ ScanProtected \/ ScanNewline \/ BeginCall \/ ScanSynt
    \/ NextArg \/ DispatchMode \/ AbortMode \/ Unclosed \/ Finish

SpecMode == Init /\ [][NextMode]_vars

-----------------------------------------------------------------------------
(* dd and da on a store of up to three forms, forgiving and unforgiving *)

DelDS ==
    \E n \in {"f", "g", "h"}, s \in {"a", "b"} :
        /\ isprim("ds", Env)
        /\ Call("ds", <<n, s>>)

DelArgs ==
    {<<>>, <<"f">>, <<"g">>, <<"f", "g">>, <<"h">>, <<"h", "f">>, <<"f", "h", "g">>,
     <<"f", "f", "g">>}

DelDD ==
    \E a \in DelArgs :
        /\ isprim("dd", Env)
        /\ Call("dd", a)

NextDelete == DelDS \/ BlockMO \/ DelDD \/ DA

SpecDelete == Init /\ [][NextDelete]_vars

-----------------------------------------------------------------------------
(* The main loop with the syntax character at the end of the active string, and
   with the syntax character changed by #(mo,ms,c) *)

\* an exception psrs has no except clause for leaves parse: finally: the
\* validate pass, and the program ends with a traceback
Died ==
    /\ Thrown(printed, "crashed")
    /\ UNCHANGED <<storevars, dispatched, lastimplied, disp>>

\* ch the syntax character, the last of the active string: active[0] raises
\* IndexError
ScanSyntLast ==
    /\ Matched
    /\ top.depth = 0
    /\ atsynt
    /\ rest = ""
    /\ Died

\* ch is none of the characters parse asks for: assert False
Unrecognized ==
    /\ Matched
    /\ top.depth = 0
    /\ ch \notin {"(", ")", ",", "\n", syntchar}
    /\ Died

\* typed with the syntax character #: a read whose value ends the active string
LastInputs == {")#(rs", "x#", "#", "a#b,c", "(#)\n", "##x", "#(cl,f", "#(ps,#)"}

DispatchLast == pc = "scan" /\ DispatchOf(LastInputs)

NextLast ==
    \/ Prompt \/ ScanOpen \/ ScanProtected \/ ScanNewline \/ BeginCall \/ ScanSynt
    \/ ScanSyntLast \/ NextArg \/ DispatchLast \/ Unclosed \/ Finish

SpecLast == Init /\ [][NextLast]_vars

\* typed to change the syntax character, and calls written with the new one
SyntInputs ==
    {"#(mo,ms,:)", ":(ps,a#(b)c)::(ps,d)", "#(ps,a)", "#(mo,ms,(,))", "#(mo,ms,\\)",
     "#(mo,ms,^)", ":(mo,ms,(\n))", ":(mo,ms,#", "a#b:c\n"}

DispatchSynt == pc = "scan" /\ DispatchOf(SyntInputs)

NextSynt ==
    \/ Prompt \/ ScanOpen \/ ScanProtected \/ ScanNewline \/ BeginCall \/ ScanSynt
    \/ Unrecognized \/ NextArg \/ DispatchSynt \/ Unclosed \/ Finish

SpecSynt == Init /\ [][NextSynt]_vars

-----------------------------------------------------------------------------
(* The main loop with trace: #(tn), #(tf), and the line eval reads before a call *)

TraceInputs == {"#(tn)", "#(tf)", "#(ds,f,a)", "##(cl,f)", "#(ps,(a))", "#(cm,;)", "#(zz"}

\* the line typed when eval waits for one: return alone, or something and return
Lines == {"\n", "x\n"}

\* eval(args, activefn), the user typing line when eval reads one and inp at a
\* read string
tracedeval(inp, line) ==
    eval(Append(caller.args, passed), caller.activefn,
         [Env EXCEPT !.input = inp, !.line = line])

\* the call is evaluated
DispatchTrace ==
    /\ pc = "scan"
    /\ Dispatchable
    /\ \E inp \in (IF calledname = "rs" THEN TraceInputs ELSE {""}),
          line \in (IF tracing THEN Lines ELSE {"\n"}) :
          Evaluated(tracedeval(inp, line))

\* psrs, except KeyboardInterrupt: eval has read a line that is not empty
InterruptTrace ==
    /\ pc = "scan"
    /\ Dispatchable
    /\ \E line \in Lines : \E e \in {tracedeval("", line)} :
          /\ e.raised = "KeyboardInterrupt"
          /\ Raised(e, "<INT>\n", "idle")

NextTrace ==
    \/ Prompt \/ ScanOpen \/ ScanProtected \/ BeginCall \/ NextArg \/ DispatchTrace
    \/ InterruptTrace \/ Unclosed \/ Finish

SpecTrace == Init /\ [][NextTrace]_vars

-----------------------------------------------------------------------------
(* The main loop with the keys ^C and ^D struck at a read string or a read
   character *)

IntInputs ==
    {"#(rc)", "#(ds,f,#(rs))", "#(cm,;)#(rs)", "#(mo,s,+u)#(rc)", "#(mo,ms,:)##(rs)",
     "#(ps,(a))", "x"}

MaxHistory == 4

\* what the user may do at a read string or a read character
Struck ==
    {[input |-> i, key |-> "meta"] : i \in IntInputs}
        \cup {[input |-> "", key |-> k] : k \in {"^D", "^C"}}

ReadsInt ==
    IF calledname \in {"rs", "rc"} THEN Struck ELSE {[input |-> "", key |-> "meta"]}

\* the call is evaluated
DispatchInt ==
    /\ Dispatchable
    /\ rshistory < MaxHistory
    /\ \E t \in ReadsInt : Evaluated(evaluation(t.input, t.key))

\* psrs, except tracHalt: return
HaltInt ==
    /\ Dispatchable
    /\ \E t \in ReadsInt : \E e \in {evaluation(t.input, t.key)} :
          /\ e.raised = "tracHalt"
          /\ Raised(e, "", "halted")

\* psrs, except KeyboardInterrupt
InterruptInt ==
    /\ Dispatchable
    /\ \E t \in ReadsInt : \E e \in {evaluation(t.input, t.key)} :
          /\ e.raised = "KeyboardInterrupt"
          /\ Raised(e, "<INT>\n", "idle")

NextInt ==
    \/ Prompt \/ ScanOpen \/ ScanSynt \/ BeginCall \/ NextArg \/ DispatchInt \/ HaltInt
    \/ InterruptInt \/ Finish

SpecInt == Init /\ [][NextInt]_vars

-----------------------------------------------------------------------------
(* The line console: tc.readstr() and tc.readch() of a LineConsole on the lines
   sys.stdin hands over *)

\* the lines typed: with return, or ended by the end of the file; "" is the
\* end of the file at the start of a line
TypedLines == {"ab\n", "a'\n", "c'd\n", "a''b\n", "'\n\n", "b'", "c;\n", "x", ""}

MaxPending == 2

\* LineConsole.inkey on the buffer buf and the lines still to read: the
\* character, the buffer and the lines left; halt at the end of the file, and
\* wait when the user has typed no line yet
lineinkey(buf, lines) ==
    IF buf # "" THEN [ch |-> CharAt(buf, 0), buf |-> StrFrom(buf, 1), lines |-> lines,
                      halt |-> FALSE, wait |-> FALSE]
    ELSE IF lines = <<>> THEN [ch |-> "", buf |-> "", lines |-> lines, halt |-> FALSE,
                               wait |-> TRUE]
    ELSE IF Head(lines) = "" THEN [ch |-> "", buf |-> "", lines |-> Tail(lines),
                                   halt |-> TRUE, wait |-> FALSE]
    ELSE [ch |-> CharAt(Head(lines), 0), buf |-> StrFrom(Head(lines), 1),
          lines |-> Tail(lines), halt |-> FALSE, wait |-> FALSE]

\* what a read of the line console comes to: the value, the exception raised,
\* the buffer and the lines left, whether rshistory was appended to
lineread(v, raised, buf, lines, logged) ==
    [val |-> v, raised |-> raised, buf |-> buf, lines |-> lines, logged |-> logged]

\* LineConsole.readstr past prim.condTMA(args, 0), string read so far;
\* self.inbuf[0] raises IndexError on the empty buffer
RECURSIVE linereadstr(_, _, _, _)
linereadstr(string, buf, lines, mc) ==
    LET k == lineinkey(buf, lines) IN
    IF k.wait THEN lineread("", "waiting", k.buf, k.lines, FALSE)
    ELSE IF k.halt THEN lineread("", "tracHalt", k.buf, k.lines, FALSE)
    ELSE IF k.ch = mc
         THEN IF mc # "\n" /\ k.buf = ""
              THEN lineread("", "IndexError", k.buf, k.lines, FALSE)
              ELSE IF mc # "\n" /\ CharAt(k.buf, 0) = "\n"
                   THEN lineread(string, "", StrFrom(k.buf, 1), k.lines, TRUE)
                   ELSE lineread(string, "", k.buf, k.lines, TRUE)
         ELSE linereadstr(string \o k.ch, k.buf, k.lines, mc)

\* LineConsole.readch
linereadch(buf, lines) ==
    LET k == lineinkey(buf, lines) IN
    IF k.wait THEN lineread("", "waiting", k.buf, k.lines, FALSE)
    ELSE IF k.halt THEN lineread("", "tracHalt", k.buf, k.lines, FALSE)
    ELSE lineread(k.ch, "", k.buf, k.lines, FALSE)

\* the user types a line
TypeLine ==
    \E l \in TypedLines :
        /\ Len(stdin) < MaxPending
        /\ stdin' = Append(stdin, l)
        /\ UNCHANGED <<forms, activeImpliedCall, last, mode, metachar, syntchar, tracing,
                       rshistory, inbuf, tcinp, files, received, scanvars>>

\* the read r of primitive pname has come to its end
LineRead(pname, r) ==
    /\ r.raised # "waiting"
    /\ inbuf' = r.buf
    /\ stdin' = r.lines
    /\ rshistory' = IF r.logged THEN rshistory + 1 ELSE rshistory
    /\ last' = [op |-> pname, args |-> <<>>, val |-> r.val, force |-> FALSE, err |-> "",
                raised |-> r.raised, wasleft |-> FALSE]
    /\ UNCHANGED <<forms, activeImpliedCall, mode, metachar, syntchar, tracing, tcinp,
                   files, received, scanvars>>

\* #(rs)
LineRS ==
    /\ last.raised = ""
    /\ rshistory < MaxHistory
    /\ LineRead("rs", linereadstr("", inbuf, stdin, metachar))

\* #(rc); an exception no read string or read character is called after
LineRC ==
    /\ last.raised = ""
    /\ LineRead("rc", linereadch(inbuf, stdin))

\* #(cm,c)
LineCM ==
    \E c \in {"'", ";", "\n"} :
        /\ last.raised = ""
        /\ c # metachar
        /\ Call("cm", <<c>>)

NextLine == TypeLine \/ LineRS \/ LineRC \/ LineCM

SpecLine == Init /\ [][NextLine]_vars

-----------------------------------------------------------------------------
(* The ANSI console: AnsiConsole.readstr and the keys of its main loop on the
   InputString; the row of the cursor is not polled (switch l off, or a terminal
   that does not answer), so that rowloc is None *)

min(a, b) == IF a < b THEN a ELSE b
max(a, b) == IF a > b THEN a ELSE b

\* map(len, s.split('\n')) from the character at index i on, cur counted so far
RECURSIVE splitlens(_, _, _)
splitlens(s, i, cur) ==
    IF i >= Len(s) THEN <<cur>>
    ELSE IF CharAt(s, i) = "\n" THEN <<cur>> \o splitlens(s, i + 1, 0)
    ELSE splitlens(s, i + 1, cur + 1)

\* InputString.redolengths
redolengths(e) ==
    [splitlens(e.rstring, 0, 0) EXCEPT ![1] = @ + e.carriagepos]

\* InputString.posfrompoint, the loop from line on (lines counted from 0): line,
\* pos, colloc and hanging as it leaves them, err for the termError 'Logic
\* error (posline)' raised when the loop runs out of lines
RECURSIVE posline(_, _, _, _)
posline(ls, line, pos, cols) ==
    IF line >= Len(ls)
    THEN [line |-> line - 1, pos |-> pos, colloc |-> 0, hanging |-> FALSE, err |-> TRUE]
    ELSE LET ll == ls[line + 1]
             colloc == (pos % cols) + 1
         IN  IF pos = 0 \/ pos < ll
             THEN [line |-> line, pos |-> pos, colloc |-> colloc, hanging |-> FALSE,
                   err |-> FALSE]
             ELSE IF pos = ll
             THEN [line |-> line, pos |-> pos,
                   colloc |-> IF colloc = 1 THEN cols ELSE colloc,
                   hanging |-> colloc = 1, err |-> FALSE]
             ELSE posline(ls, line + 1, pos - (ll + 1), cols)

posfrompoint(e, point) == posline(redolengths(e), 0, e.carriagepos + point, e.cols)

\* what a key comes to: the InputString, and the exception that ends readstr
keyed(e, raised) == [inp |-> e, raised |-> raised]

\* the key rings the bell
bell(e) == keyed(e, "")

\* self.inspoint = p; self.curtoinspoint()
curtoinspoint(e, p) ==
    keyed([e EXCEPT !.inspoint = p],
          IF posfrompoint(e, p).err THEN "termError" ELSE "")

\* InputString.charleft, charright
charleft(e) == IF e.inspoint = 0 THEN bell(e) ELSE curtoinspoint(e, e.inspoint - 1)
charright(e) ==
    IF e.inspoint = Len(e.rstring) THEN bell(e) ELSE curtoinspoint(e, e.inspoint + 1)

\* InputString.rowup
rowup(e) ==
    LET c == posfrompoint(e, e.inspoint)
        prevll == redolengths(e)[c.line]
        onprevrow == IF prevll = 0 THEN 0 ELSE ((prevll - 1) % e.cols) + 1
    IN  IF e.inspoint = 0 THEN bell(e)
        ELSE IF c.line = 0 \/ c.pos >= e.cols
        THEN curtoinspoint(e, max(0, e.inspoint - e.cols - (IF c.hanging THEN 1 ELSE 0)))
        ELSE IF c.pos > onprevrow
        THEN curtoinspoint(e, max(0, e.inspoint - (c.pos + 1)))
        ELSE curtoinspoint(e, max(0, e.inspoint - (onprevrow + 1)))

\* InputString.rowdown
rowdown(e) ==
    LET c == posfrompoint(e, e.inspoint)
        ls == redolengths(e)
        rump == ls[c.line + 1] - c.pos
    IN  IF e.inspoint = Len(e.rstring) THEN bell(e)
        ELSE IF rump >= e.cols
        THEN curtoinspoint(e, e.inspoint + e.cols
                              + (IF rump = e.cols /\ c.colloc = 1 THEN 1 ELSE 0))
        ELSE IF c.line = Len(ls) - 1 THEN curtoinspoint(e, Len(e.rstring))
        ELSE IF rump + c.colloc > e.cols + 1 THEN curtoinspoint(e, e.inspoint + rump)
        ELSE curtoinspoint(e, e.inspoint + rump + min(c.colloc, ls[c.line + 2] + 1))

\* InputString.rowleft
rowleft(e) ==
    LET c == posfrompoint(e, e.inspoint) IN
    IF c.colloc = 1 \/ e.inspoint = 0 THEN bell(e)
    ELSE curtoinspoint(e, max(e.inspoint - (c.colloc - (IF c.hanging THEN 0 ELSE 1)), 0))

\* InputString.rowright
rowright(e) ==
    LET c == posfrompoint(e, e.inspoint)
        charsleft == redolengths(e)[c.line + 1] - c.pos
        colsleft == e.cols - c.colloc
        gohang == charsleft - colsleft = 1
    IN  IF e.inspoint = Len(e.rstring) \/ CharAt(e.rstring, e.inspoint) = "\n"
        THEN bell(e)
        ELSE IF charsleft = 0 THEN bell(e)
        ELSE IF colsleft = 0 /\ ~gohang THEN bell(e)
        ELSE curtoinspoint(e, e.inspoint + min(charsleft, colsleft)
                                 + (IF gohang THEN 1 ELSE 0))

\* AnsiConsole.readstr, code == AnsiConsole.BS
backspace(e) ==
    IF e.inspoint = 0 THEN bell(e)
    ELSE LET d == [e EXCEPT !.rstring = StrSlice(e.rstring, 0, e.inspoint - 1)
                                         \o StrFrom(e.rstring, e.inspoint)]
         IN  curtoinspoint(d, e.inspoint - 1)

\* AnsiConsole.readstr, code == AnsiConsole.DEL
delete(e) ==
    IF e.inspoint = Len(e.rstring) THEN bell(e)
    ELSE LET d == [e EXCEPT !.rstring = StrSlice(e.rstring, 0, e.inspoint)
                                         \o StrFrom(e.rstring, e.inspoint + 1)]
         IN  curtoinspoint(d, e.inspoint)

\* AnsiConsole.readstr, a printable character or newline that is not the meta
\* character
insert(e, c) ==
    LET d == [e EXCEPT !.rstring = StrSlice(e.rstring, 0, e.inspoint) \o c
                                     \o StrFrom(e.rstring, e.inspoint)]
    IN  curtoinspoint(d, e.inspoint + 1)

\* AnsiConsole.adjustcarriage(t) on the carriage position cp
adjustcarriage(cp, t) ==
    LET p == splitlens(t, 0, 0) IN
    IF Len(p) = 1 THEN cp + p[1] ELSE p[Len(p)]

\* faulty variant: the displacement is always counted from the start
startnum_fromstart(startstr, startpoint) ==
    min(max(parsenum(startpoint).n, 0), Len(startstr))

\* AnsiConsole.readstr, startnum of startstr and startpoint
startnum(startstr, startpoint) ==
    LET n == parsenum(startpoint)
        fromend == IF n.sign = "-" THEN n.n + Len(startstr) ELSE n.n
    IN  min(max(fromend, 0), Len(startstr))

\* AnsiConsole.readstr up to its main loop: the InputString on a screen cols
\* wide with the carriage at cp, or the message of the primError of condTMA
readstart(args, cp, cols, env) ==
    IF args # <<>> /\ extprim(env)
    THEN [err |-> condTMAatmost(args, 2, env),
          inp |-> [rstring |-> args[1],
                   inspoint |-> startnum(args[1], IF Len(args) < 2 THEN "0" ELSE args[2]),
                   carriagepos |-> cp, cols |-> cols, editing |-> TRUE, fresh |-> TRUE]]
    ELSE [err |-> condTMA(args, 0, env),
          inp |-> [rstring |-> "", inspoint |-> 0, carriagepos |-> cp, cols |-> cols,
                   editing |-> TRUE, fresh |-> TRUE]]

MaxEdit == 4
EditStrs == {"", "ab", "abc", "a\nb", "\naaa"}
Displacements == {"0", "2", "+2", "9", "-0", "-1", "-2", "-9"}
StartArgs ==
    {<<>>} \cup {<<s>> : s \in EditStrs}
           \cup {<<s, d>> : s \in EditStrs, d \in Displacements}
           \cup {<<"ab", "1", "x">>}
EditArgs == {<<>>, <<"ab">>, <<"a\nb", "-1">>}
Widths == {2, 3}
Prompts == {0, 2}

\* #(rs,...) is called with one of argsets, the carriage at one of prompts on a
\* screen of one of widths: readstr gets to its main loop, or condTMA raises
ReadStart(argsets, prompts, widths) ==
    \E a \in argsets, cp \in prompts, cols \in widths :
    \E r \in {readstart(a, cp, cols, Env)} :
        /\ ~tcinp.editing
        /\ rshistory < MaxHistory
        /\ tcinp' = IF r.err = "" THEN r.inp ELSE tcinp
        /\ last' = [op |-> "rs", args |-> a, val |-> "", force |-> FALSE, err |-> r.err,
                    raised |-> IF r.err = "" THEN "" ELSE "primError", wasleft |-> FALSE]
        /\ UNCHANGED <<forms, activeImpliedCall, mode, metachar, syntchar, tracing,
                       rshistory, inbuf, stdin, files, received, scanvars>>

\* a key of the main loop has been handled, k what it came to
Keyed(k) ==
    /\ tcinp' = [k.inp EXCEPT !.fresh = FALSE, !.editing = k.raised = ""]
    /\ last' = [last EXCEPT !.raised = k.raised]
    /\ UNCHANGED <<forms, activeImpliedCall, mode, metachar, syntchar, tracing,
                   rshistory, inbuf, stdin, files, received, scanvars>>

Insert ==
    \E c \in {"a", "\n"} :
        /\ tcinp.editing
        /\ c # metachar
        /\ Len(tcinp.rstring) < MaxEdit
        /\ Keyed(insert(tcinp, c))

Backspace == tcinp.editing /\ Keyed(backspace(tcinp))
Delete == tcinp.editing /\ Keyed(delete(tcinp))
CharLeft == tcinp.editing /\ Keyed(charleft(tcinp))
CharRight == tcinp.editing /\ Keyed(charright(tcinp))
RowUp == tcinp.editing /\ Keyed(rowup(tcinp))
RowDown == tcinp.editing /\ Keyed(rowdown(tcinp))
RowLeft == tcinp.editing /\ Keyed(rowleft(tcinp))
RowRight == tcinp.editing /\ Keyed(rowright(tcinp))

\* the meta character is struck: readstr returns the head
Meta ==
    LET head == StrSlice(tcinp.rstring, 0, tcinp.inspoint) IN
    /\ tcinp.editing
    /\ tcinp' = [tcinp EXCEPT !.rstring = head, !.editing = FALSE, !.fresh = FALSE,
                              !.carriagepos = adjustcarriage(@, head \o metachar)]
    /\ rshistory' = rshistory + 1
    /\ last' = [last EXCEPT !.val = head]
    /\ UNCHANGED <<forms, activeImpliedCall, mode, metachar, syntchar, tracing, inbuf,
                   stdin, files, received, scanvars>>

\* #(mo,s,switches), between two read strings
EditMO ==
    \E s \in {"+u", "-u", "+p", "-p"} :
        /\ ~tcinp.editing
        /\ isprim("mo", Env)
        /\ Call("mo", <<"s", s>>)

EditStart ==
    /\ ~tcinp.editing
    /\ ReadStart(EditArgs, Prompts, Widths)

NextEdit ==
    \/ EditStart \/ Insert \/ Backspace \/ Delete \/ CharLeft \/ CharRight \/ RowUp
    \/ RowDown \/ RowLeft \/ RowRight \/ Meta

SpecEdit == Init /\ [][NextEdit]_vars

\* extended read string called and ended at once, in every mode
StartRS ==
    /\ ~tcinp.editing
    /\ ReadStart(StartArgs, {2}, {3})

NextStart == StartRS \/ Meta \/ EditMO

SpecStart == Init /\ [][NextStart]_vars

-----------------------------------------------------------------------------
(* Properties of the form store *)

\* the form the last call named, when the store holds it
lastname == IF last.args = <<>> THEN "" ELSE last.args[1]
lastfound == lastname \in DOMAIN forms

\* what form.validate reports on, with the form pointer tied to chunkp
validchunk(f, i) ==
    LET c == f.formlist[i] IN
    /\ (c.pointer >= 0) <=> (i = f.chunkp + 1)
    /\ (c.kind = "end") <=> (i = Len(f.formlist))
    /\ c.kind = "text" =>
          /\ c.text # ""
          /\ c.pointer \in -1..(Len(c.text) - 1)
          /\ i > 1 => f.formlist[i - 1].kind # "text"
    /\ c.kind # "text" => c.pointer \in {-1, 0}

validform(f) ==
    /\ Len(f.formlist) >= 1
    /\ f.chunkp \in 0..(Len(f.formlist) - 1)
    /\ \A i \in 1..Len(f.formlist) : validchunk(f, i)

\* C1: after any sequence of form-mutating primitives every form in the store
\* has exactly one chunk with the form pointer, the one chunkp indexes, one End
\* chunk, which is last, no two Text chunks in a row, no empty Text chunk, and
\* every Text pointer in -1..len-1
C1_FormsValid == \A n \in DOMAIN forms : validform(forms[n])

C1_Witness ==
    /\ last.op = "in" /\ lastfound
    /\ Len(forms["f"].formlist) = 4
    /\ forms["f"].chunkp = 2
    /\ curchunk(forms["f"]).kind = "text"

\* C2: after ss on an existing form the cursor is at the leftmost chunk
C2_SsCursorLeft == (last.op = "ss" /\ lastfound) => forms[lastname].chunkp = 0

\* C3: cl(n) called right after ds(n, s) returns s, and after ds(n, s) form n is
\* the new form alone: no gaps, the form pointer at the left edge
C3_DsThenCl ==
    [][/\ (last.op = "ds" /\ last'.op = "cl" /\ last'.args = <<last.args[1]>>)
            => (last'.val = last.args[2] /\ last'.err = "")
       /\ last'.op = "ds" =>
            /\ last'.args[1] \in DOMAIN forms'
            /\ atleft(forms'[last'.args[1]])
            /\ \A i \in 1..Len(forms'[last'.args[1]].formlist) :
                  forms'[last'.args[1]].formlist[i].kind # "gap"]_vars

C3_Witness ==
    /\ last.op = "cl" /\ last.args = <<"f">> /\ last.val = "aba" /\ lastfound
    /\ forms["f"].formlist = <<[textchunk("aba") EXCEPT !.pointer = 0], endchunk>>

\* C4: ss(n, x) with a non-empty x called twice in a row leaves the form as the
\* first call left it (chunks and cursor)
C4_SsTwice ==
    [][(/\ last.op = "ss" /\ last'.op = "ss" /\ last'.args = last.args
        /\ Len(last.args) = 2 /\ last.args[2] # "" /\ last.err = "")
          => forms' = forms]_vars

C4_Witness ==
    /\ last.op = "ss" /\ last.args = <<"f", "b">> /\ ~last.wasleft /\ lastfound
    /\ forms["f"].formlist = <<textchunk("a"), [gapchunk(0) EXCEPT !.pointer = 0],
                               textchunk("a"), endchunk>>

\* C5: cc(n, d) called over and over on an existing form never fails, after
\* finitely many calls returns d (forced active), and from then on every cc
\* returns d with the cursor at End
C5_CcExhausts ==
    /\ []((last.op = "cc" /\ lastfound) => last.err = "")
    /\ (last.op = "cc" /\ lastfound)
          ~> (last.op = "cc" /\ last.val = Default /\ last.force)
    /\ [][(last.op = "cc" /\ lastfound /\ last.val = Default /\ last.force)
             => /\ last'.op = "cc" /\ last'.val = Default /\ last'.force
                /\ forms' = forms /\ atend(forms'[lastname])]_vars

C5_Witness ==
    /\ last.op = "cc" /\ last.val = Default /\ last.force /\ lastfound
    /\ Len(forms["f"].formlist) = 4
    /\ atend(forms["f"])

\* the number a cn argument stands for
cnnum(numstr) == parsenum(numstr).n

\* a cn(n, k, d) that read k >= 1 characters from the left edge is followed by
\* cn(n, -k, d)
cnthereandback ==
    /\ last.op = "cn" /\ last.wasleft /\ ~last.force /\ last.err = ""
    /\ parsenum(last.args[2]).sign = "" /\ cnnum(last.args[2]) >= 1
    /\ Len(last.val) = cnnum(last.args[2])
    /\ last'.op = "cn"
    /\ last'.args = <<last.args[1], "-" \o last.args[2], last.args[3]>>

\* C6 as claimed: cn(n, k, d) from the left edge of a form of at least k
\* characters, then cn(n, -k, d), leaves the cursor at the leftmost chunk,
\* offset 0, and the second call returns the characters of the first
C6_CnBackToLeft ==
    [][cnthereandback => (atleft(forms'[lastname]) /\ last'.val = last.val)]_vars

\* the cursor is at offset 0 of the first Text chunk
atfirsttext(f) ==
    /\ curchunk(f).kind = "text" /\ curchunk(f).pointer = 0
    /\ \A i \in 1..f.chunkp : f.formlist[i].kind = "gap"

\* C6 amended: cn(n, k, d) from the left edge of a form of at least k
\* characters, then cn(n, -k, d), leaves the cursor at offset 0 of the first Text
\* chunk (the leftmost chunk unless segment gaps come first), and the second call
\* returns the characters of the first
C6_CnBackToFirstText ==
    [][cnthereandback => (atfirsttext(forms'[lastname]) /\ last'.val = last.val)]_vars

C6_Witness ==
    /\ last.op = "cn" /\ last.args = <<"f", "-2", Default>> /\ last.val = "aa"
    /\ lastfound
    /\ forms["f"].formlist = <<[textchunk("a") EXCEPT !.pointer = 0], gapchunk(0),
                               textchunk("a"), endchunk>>

\* what chunk i of form f adds to the value of cl with arguments args
clpart(f, i, args) ==
    LET c == f.formlist[i] IN
    CASE c.kind = "text" /\ i = f.chunkp + 1 -> SubSeq(c.text, c.pointer + 1, Len(c.text))
      [] c.kind = "text" -> c.text
      [] c.kind = "gap" /\ c.gapno + 1 <= Len(args) -> args[c.gapno + 1]
      [] OTHER -> ""

clvalue(f, args) == strjoin([i \in 1..(Len(f.formlist) - f.chunkp) |-> clpart(f, f.chunkp + i, args)])

\* C7: cl(name, a1, ...) returns the chunks from the cursor chunk to End joined,
\* the cursor Text chunk giving text[offset..], later Text chunks their text,
\* Gap(i) giving a(i+1) or nothing; the call changes no form
C7_ClValue ==
    [][last'.op = "cl" =>
          /\ forms' = forms
          /\ last'.args[1] \in DOMAIN forms =>
                last'.val = clvalue(forms[last'.args[1]], Tail(last'.args))]_vars

C7_Witness ==
    /\ last.op = "cl" /\ last.args = <<"f", "x", "y">> /\ last.val = "ay"
    /\ lastfound /\ "g" \in DOMAIN forms
    /\ curchunk(forms["f"]).pointer = 1

\* the step calls pname on a form there is, the form as it is before and after
\* the call, and the characters from the cursor to End before and after it
called(pname) == last'.op = pname /\ last'.args[1] \in DOMAIN forms
before == forms[last'.args[1]]
after == forms'[last'.args[1]]
ahead == clvalue(before, <<>>)
left == clvalue(after, <<>>)

\* C24 as claimed: cc(name, default) returns the default exactly when the
\* cursor is at End when it is called, and one character of the form in every
\* other cursor state
C24_CcDefault ==
    [][called("cc") =>
          /\ (last'.force /\ last'.val = Default) <=> atend(before)
          /\ ~atend(before) =>
                \E i \in 1..Len(ahead) : last'.val = SubSeq(ahead, i, i)]_vars

\* C24 amended: cc(name, default) returns the default exactly when no character
\* is left from the cursor on (the cursor at End, or on Gaps that only Gaps and
\* End follow), and leaves the cursor at End; otherwise it returns the first
\* character from the cursor on and leaves the cursor after it
C24_CcNextChar ==
    [][called("cc") =>
          IF ahead = ""
          THEN last'.force /\ last'.val = Default /\ atend(after)
          ELSE /\ ~last'.force
               /\ last'.val = SubSeq(ahead, 1, 1)
               /\ left = SubSeq(ahead, 2, Len(ahead))]_vars

\* cc on the form <1> (ss(f,a) on a): the cursor was on the Gap, the default
\* is returned
C24_Witness ==
    /\ last.op = "cc" /\ last.force /\ last.val = Default /\ last.wasleft /\ lastfound
    /\ forms["f"].formlist = <<gapchunk(0), [endchunk EXCEPT !.pointer = 0]>>

\* the chunks of a form without the form pointer
chunksof(f) ==
    [i \in 1..Len(f.formlist) |->
        [kind |-> f.formlist[i].kind, text |-> f.formlist[i].text,
         gapno |-> f.formlist[i].gapno]]

\* the characters of form f left of the cursor
behindpart(f, i) ==
    LET c == f.formlist[i] IN
    IF c.kind # "text" THEN ""
    ELSE IF i = f.chunkp + 1 THEN SubSeq(c.text, 1, c.pointer)
    ELSE c.text
behind(f) == strjoin([i \in 1..(f.chunkp + 1) |-> behindpart(f, i)])
passedby == behind(before)
leftbehind == behind(after)

\* the cursor is right after a character, or right before one
afterchar(f) ==
    \/ curchunk(f).pointer > 0
    \/ f.chunkp > 0 /\ f.formlist[f.chunkp].kind = "text"
beforechar(f) == curchunk(f).kind = "text"

\* the number of a call of cn and the side it reads to
cnleftward == SubSeq(last'.args[2], 1, 1) = "-"
cncount == IF cnnum(last'.args[2]) < 0 THEN -cnnum(last'.args[2]) ELSE cnnum(last'.args[2])
Least(a, b) == IF a <= b THEN a ELSE b

\* C25: cn(name, n, default) with n unsigned or signed '+' returns the default
\* only with the cursor at End; for n = 0 it returns nothing and moves the
\* cursor right over Gaps only; otherwise it returns the next min(n, remaining)
\* characters, Gaps skipped, the cursor left just after the last of them, at End
\* when there were fewer than n. With '-' it is the same to the left: the
\* default only with the cursor at offset 0 of the leftmost chunk, nothing for
\* '-0', else the min(n, passed) characters left of the cursor
C25_CallN ==
    [][called("cn") =>
          /\ chunksof(after) = chunksof(before)
          /\ ~cnleftward =>
                IF atend(before) THEN last'.force /\ last'.val = Default /\ after = before
                ELSE /\ ~last'.force
                     /\ last'.val = SubSeq(ahead, 1, Least(cncount, Len(ahead)))
                     /\ left = SubSeq(ahead, Len(last'.val) + 1, Len(ahead))
                     /\ cncount = 0 =>
                           /\ curchunk(after).kind # "gap"
                           /\ \A i \in (before.chunkp + 1)..after.chunkp :
                                 before.formlist[i].kind = "gap"
                     /\ (cncount > 0 /\ Len(ahead) >= cncount) => afterchar(after)
                     /\ Len(ahead) < cncount => atend(after)
          /\ cnleftward =>
                IF atleft(before) THEN last'.force /\ last'.val = Default /\ after = before
                ELSE /\ ~last'.force
                     /\ last'.val = SubSeq(passedby,
                                           Len(passedby) - Least(cncount, Len(passedby)) + 1,
                                           Len(passedby))
                     /\ leftbehind = SubSeq(passedby, 1, Len(passedby) - Len(last'.val))
                     /\ (cncount > 0 /\ Len(passedby) >= cncount) => beforechar(after)
                     /\ Len(passedby) < cncount => after.chunkp = 0]_vars

\* cn(f, +2, d) on the form a<1>a with the cursor at the left: aa, the cursor
\* at End
C25_Witness ==
    /\ last.op = "cn" /\ last.args = <<"f", "+2", Default>> /\ last.val = "aa"
    /\ last.wasleft /\ lastfound
    /\ forms["f"].formlist = <<textchunk("a"), gapchunk(0), textchunk("a"),
                               [endchunk EXCEPT !.pointer = 0]>>

\* text t is in string s at index k (from 1), and the least such index
isat(s, t, k) == k >= 1 /\ k + Len(t) - 1 <= Len(s) /\ SubSeq(s, k, k + Len(t) - 1) = t
occurs(s, t) == t # "" /\ \E k \in 1..Len(s) : isat(s, t, k)
leftmost(s, t) == CHOOSE k \in 1..Len(s) : isat(s, t, k) /\ \A j \in 1..(k - 1) : ~isat(s, t, j)

\* the characters each chunk from the cursor chunk on has ahead of the cursor
pieces(f) == [i \in 1..(Len(f.formlist) - f.chunkp) |-> clpart(f, f.chunkp + i, <<>>)]
\* the first of them that text t is in
firstwith(ps, t) == CHOOSE j \in 1..Len(ps) : occurs(ps[j], t) /\ \A i \in 1..(j - 1) : ~occurs(ps[i], t)

\* what in is looking for
sought == last'.args[2]

\* in has found nothing: the default, the form as it was
indefault == last'.force /\ last'.val = Default /\ after = before

\* C26 as claimed: in(name, text, default) with text among the characters from
\* the cursor to End returns the characters between the cursor and the leftmost
\* occurrence and leaves the cursor right after the occurrence; with no
\* occurrence, or text empty, it returns the default and leaves the form as it
\* was
C26_Initial ==
    [][called("in") =>
          IF occurs(ahead, sought)
          THEN /\ ~last'.force
               /\ last'.val = SubSeq(ahead, 1, leftmost(ahead, sought) - 1)
               /\ left = SubSeq(ahead, leftmost(ahead, sought) + Len(sought), Len(ahead))
               /\ chunksof(after) = chunksof(before)
               /\ afterchar(after)
          ELSE indefault]_vars

\* C26 amended: the occurrence is one inside a Text chunk (from the cursor on
\* in the cursor chunk): text that only occurs across a Gap is not found
C26_InitialInChunk ==
    [][called("in") =>
          IF \E j \in 1..Len(pieces(before)) : occurs(pieces(before)[j], sought)
          THEN LET ps == pieces(before)
                   j == firstwith(ps, sought)
                   k == leftmost(ps[j], sought)
               IN  /\ ~last'.force
                   /\ last'.val = strjoin(SubSeq(ps, 1, j - 1)) \o SubSeq(ps[j], 1, k - 1)
                   /\ left = SubSeq(ps[j], k + Len(sought), Len(ps[j]))
                                \o strjoin(SubSeq(ps, j + 1, Len(ps)))
                   /\ chunksof(after) = chunksof(before)
                   /\ afterchar(after)
          ELSE indefault]_vars

\* in(f, b, d) has found b in the last Text chunk of a form that has a Gap
\* before it (b<1>b), and left the cursor at End
C26_Witness ==
    /\ last.op = "in" /\ last.args = <<"f", "b", Default>> /\ last.val = ""
    /\ ~last.force /\ lastfound
    /\ atend(forms["f"])
    /\ forms["f"].formlist[Len(forms["f"].formlist) - 1].kind = "text"
    /\ \E i \in 1..Len(forms["f"].formlist) : forms["f"].formlist[i].kind = "gap"

\* the cursor of f is at the start of chunk number p (from 0)
atchunk(f, p) == f.chunkp = p /\ curchunk(f).pointer = 0

\* C27: cs(name, default) at End returns the default and leaves the cursor at
\* End; on a Text chunk it returns the text from the offset to the end of the
\* chunk and moves the cursor past the Gap that follows, to End when End
\* follows the text; on a Gap it returns the empty string and moves the cursor
\* to the next chunk only
C27_CallSeg ==
    [][called("cs") =>
          IF atend(before)
          THEN last'.force /\ last'.val = Default /\ after = before
          ELSE /\ ~last'.force
               /\ chunksof(after) = chunksof(before)
               /\ IF curchunk(before).kind = "text"
                  THEN /\ last'.val = StrFrom(curchunk(before).text, curchunk(before).pointer)
                       /\ IF before.formlist[before.chunkp + 2].kind = "gap"
                          THEN atchunk(after, before.chunkp + 2)
                          ELSE atend(after)
                  ELSE /\ last'.val = ""
                       /\ atchunk(after, before.chunkp + 1)
               /\ last'.val \o left = ahead]_vars

\* the segments of the form a<1>b have been read by two calls of cs: the second
\* has returned b and left the cursor at End
C27_Witness ==
    /\ last.op = "cs" /\ lastfound /\ last.val = "b" /\ ~last.force
    /\ atend(forms[lastname])
    /\ Len(forms[lastname].formlist) = 4
    /\ forms[lastname].formlist[2].kind = "gap"

\* f read from the left edge with the gaps filled by args
fromleft(f, args) ==
    strjoin([i \in 1..Len(f.formlist) |->
                CASE f.formlist[i].kind = "text" -> f.formlist[i].text
                  [] f.formlist[i].kind = "gap" /\ f.formlist[i].gapno + 1 <= Len(args)
                       -> args[f.formlist[i].gapno + 1]
                  [] OTHER -> ""])

\* the numbers of the Gaps of f, in order
RECURSIVE gapnos(_)
gapnos(formlist) ==
    IF formlist = <<>> THEN <<>>
    ELSE (IF Head(formlist).kind = "gap" THEN <<Head(formlist).gapno>> ELSE <<>>)
         \o gapnos(Tail(formlist))

\* sequence a is what is left of b when some of its elements are taken out
RECURSIVE within(_, _)
within(a, b) ==
    IF a = <<>> THEN TRUE
    ELSE IF b = <<>> THEN FALSE
    ELSE IF Head(a) = Head(b) /\ within(Tail(a), Tail(b)) THEN TRUE
    ELSE within(a, Tail(b))

\* the arguments s1, ..., sk of a call of ss, and the gap numbers they stand for
ssargs == Tail(last'.args)
ssnos == {i - 1 : i \in {j \in 1..Len(ssargs) : ssargs[j] # ""}}

\* C28: ss(name, s1, ..., sk) replaces the occurrences of each non-empty si in
\* the Text chunks by Gaps numbered i - 1: afterwards no Text chunk holds an
\* si, no Text chunk is empty, the Gaps the form had are all there in their
\* order, the Gaps added carry the number of a non-empty argument's position,
\* and the form read from the left edge with s1, ..., sk for the gaps is what
\* it was read so before the call (the original text, for a form without gaps)
C28_Segment ==
    [][called("ss") =>
          /\ \A i \in 1..Len(after.formlist) :
                after.formlist[i].kind = "text" =>
                    /\ after.formlist[i].text # ""
                    /\ \A j \in 1..Len(ssargs) : ~occurs(after.formlist[i].text, ssargs[j])
          /\ within(gapnos(before.formlist), gapnos(after.formlist))
          /\ \A n \in {gapnos(after.formlist)[i] : i \in 1..Len(gapnos(after.formlist))} \ ssnos :
                Len(SelectSeq(gapnos(after.formlist), LAMBDA x : x = n))
                    = Len(SelectSeq(gapnos(before.formlist), LAMBDA x : x = n))
          /\ fromleft(after, ssargs) = fromleft(before, ssargs)]_vars

\* ss(f, , b) has cut aba at its b: the form is a<2>a, the gap numbered by the
\* position of b among the arguments
C28_Witness ==
    /\ last.op = "ss" /\ last.args = <<"f", "", "b">> /\ lastfound
    /\ Len(forms["f"].formlist) = 4
    /\ forms["f"].formlist[1].kind = "text" /\ forms["f"].formlist[1].text = "a"
    /\ forms["f"].formlist[2].kind = "gap" /\ forms["f"].formlist[2].gapno = 1
    /\ forms["f"].formlist[3].kind = "text" /\ forms["f"].formlist[3].text = "a"

-----------------------------------------------------------------------------
(* Properties of the scanner *)

\* this step hands a call to eval
dispatching == Len(dispatched') = Len(dispatched) + 1

\* the primitives that take a default argument, their last
defaulting == {"cc", "cs", "cn", "in", "dv", "rm"}
defaultarg(op, args) == fixargs(prims[op], args)[prims[op].maxargs]

\* no character is left from the form pointer on
nochars(f) == \A i \in (f.chunkp + 1)..Len(f.formlist) : f.formlist[i].kind # "text"

\* what is left of chunk i of f from the form pointer on
leftof(f, i) ==
    IF i = f.chunkp + 1 THEN StrFrom(f.formlist[i].text, f.formlist[i].pointer)
    ELSE f.formlist[i].text

\* text is in no Text chunk from the form pointer on
notfound(f, text) ==
    \/ text = ""
    \/ \A i \in (f.chunkp + 1)..Len(f.formlist) :
          f.formlist[i].kind = "text" => strfind(leftof(f, i), text, 0) = -1

\* the call op(a) finds the form pointer at the boundary, the text missing or
\* the divisor zero
atboundary(op, a, fs) ==
    CASE op \in {"dv", "rm"} -> tracint(a[2]) = 0
      [] a[1] \notin DOMAIN fs -> FALSE
      [] op = "cc" -> nochars(fs[a[1]])
      [] op = "cs" -> atend(fs[a[1]])
      [] op = "cn" -> IF parsenum(a[2]).sign = "-" THEN atleft(fs[a[1]])
                     ELSE atend(fs[a[1]])
      [] op = "in" -> notfound(fs[a[1]], a[2])

\* C8: when cc, cs, cn or in come to the boundary (or the text is not found), or
\* dv or rm to a zero divisor, the default argument is what they hand back, and it
\* is put in front of the active string to be scanned, also in a neutral call;
\* otherwise the result is active exactly when the call was
C8_DefaultForcedActive ==
    [][(dispatching /\ disp'.op \in defaulting /\ ~disp'.implied) =>
          IF atboundary(disp'.op, fixargs(prims[disp'.op], disp'.args), forms)
          THEN /\ disp'.val = defaultarg(disp'.op, disp'.args)
               /\ disp'.res
               /\ pc' = "scan"
               /\ active' = disp'.val \o rest
               /\ stack'[Len(stack')].neutral = caller.neutral
          ELSE disp'.res = disp'.act]_vars

C8_Witness ==
    /\ pc = "scan"
    /\ disp.op = "cc" /\ disp.args = <<"f", "#(cr,f)">>
    /\ ~disp.act /\ disp.res
    /\ startswith(active, "#(cr,f)")

\* C9 as claimed: ni(A, B) in a call read from the value of an implied call
\* gives B when that implied call was active and A when it was neutral, and A
\* before any implied call
C9_NiInBody ==
    (disp.op = "ni" /\ Len(disp.args) = 2) =>
        /\ disp.inbody = "active" => disp.val = disp.args[2]
        /\ disp.inbody = "neutral" => disp.val = disp.args[1]
        /\ disp.lastimplied = "none" => disp.val = disp.args[1]

\* C9 amended: ni(A, B) gives B when the implied call dispatched last was
\* active, and A when it was neutral or no implied call has been dispatched
C9_NiLastImplied ==
    (disp.op = "ni" /\ Len(disp.args) = 2) =>
        disp.val = IF disp.lastimplied = "active" THEN disp.args[2] ELSE disp.args[1]

C9_Witness ==
    /\ disp.op = "ni" /\ disp.args = <<"A", "B">>
    /\ disp.inbody = "active" /\ disp.lastimplied = "active"
    /\ disp.val = "B"

\* t is the end of s
issuffix(t, s) == Len(t) <= Len(s) /\ SubSeq(s, Len(s) - Len(t) + 1, Len(s)) = t

\* the calls dispatched so far: of two of them the one opened first was
\* dispatched first, unless the other is among its arguments
inorder ==
    \A i, j \in 1..Len(dispatched) :
        i < j => \/ /\ dispatched[i].id < dispatched[j].id
                    /\ dispatched[i].id \notin dispatched[j].anc
                 \/ /\ dispatched[i].id > dispatched[j].id
                    /\ dispatched[j].id \in dispatched[i].anc

\* no call whose arguments are being gathered is inside a call dispatched, and
\* every call opened is dispatched or has its arguments being gathered
argsfirst ==
    /\ \A k \in 1..(Len(stack) - 1), i \in 1..Len(dispatched) :
          dispatched[i].id \notin stack[k].anc
    /\ pc = "scan" =>
          1..opened = {dispatched[i].id : i \in 1..Len(dispatched)}
                      \cup {stack[k].id : k \in 1..(Len(stack) - 1)}

\* C10: the result of an active call is put in front of what is left of the
\* active string, the result of a neutral call at the end of the neutral string,
\* and nothing else is ever put into the active string; the calls in the
\* arguments of a call are dispatched left to right, before the call
C10_ScanOrder ==
    /\ [](inorder /\ argsfirst)
    /\ [][(pc = "scan" /\ pc' = "scan") =>
            IF dispatching
            THEN IF disp'.res
                 THEN /\ active' = disp'.val \o rest
                      /\ stack'[Len(stack')].neutral = caller.neutral
                 ELSE /\ active' = rest
                      /\ stack'[Len(stack')].neutral = caller.neutral \o disp'.val
            ELSE issuffix(active', active)]_vars

ids(d) == [i \in 1..Len(d) |-> d[i].id]

C10_Witness ==
    /\ pc = "scan"
    /\ ids(dispatched) = <<2, 5, 4, 3, 1>>
    /\ last.op = "ps" /\ last.args = <<"abx">>

\* the innermost parse before and after a step that leaves it running
samedepthof(d) == Len(stack') = Len(stack) /\ stack'[Len(stack')].depth = d
gathered(text) == stack'[Len(stack')].neutral = top.neutral \o text
upto(n) == StrSlice(active, 0, n)

\* C11: parse strips a newline at depth 0; at depth > 0 it keeps newline, comma
\* and syntax character as they are and dispatches nothing; the parentheses
\* that open and close the protection are left out, those nested inside kept
C11_Protection ==
    [][Matched =>
         /\ (top.depth = 0 /\ ch = "\n") => (samedepthof(0) /\ gathered(upto(match)))
         /\ (top.depth > 0 /\ ch \in {"\n", ",", syntchar}) =>
                /\ samedepthof(top.depth) /\ gathered(upto(match + 1))
                /\ opened' = opened /\ dispatched' = dispatched
                /\ UNCHANGED storevars
         /\ ch = "(" =>
                /\ samedepthof(top.depth + 1)
                /\ gathered(upto(IF top.depth > 0 THEN match + 1 ELSE match))
         /\ (top.depth > 0 /\ ch = ")") =>
                /\ samedepthof(top.depth - 1)
                /\ gathered(upto(IF top.depth > 1 THEN match + 1 ELSE match))]_vars

C11_Witness ==
    /\ pc = "scan"
    /\ last.op = "ps" /\ last.args = <<"a(b),\nc">>
    /\ disp.op = "ps"

\* the arguments a call of p with the arguments given runs its body on
padded(given, n) == [i \in 1..n |-> IF i <= Len(given) THEN given[i] ELSE ""]
expected(p, given) ==
    padded(given, IF p.maxargs >= 0 THEN Max(p.minargs, p.maxargs)
                  ELSE Max(p.minargs, Len(given)))

\* C12: in forgiving mode the body of a primitive with bounded max_args gets
\* max(min_args, max_args) arguments, and that of one with unbounded max_args all
\* the arguments given, padded up to min_args: missing ones are empty strings,
\* surplus ones are dropped
C12_FixArgs ==
    (last.op \in DOMAIN prims /\ ~unforgiving(Env))
        => received = expected(prims[last.op], last.args)

C12_Witness ==
    /\ ~unforgiving(Env)
    /\ last.op = "eq"
    /\ last.args = <<"x", "x", "", "x", "x">>
    /\ received = <<"x", "x", "", "x">>

\* the call eval is about to be handed names a primitive and gives it n arguments
callsprim == Dispatchable /\ isprim(calledname, Env)
given == Len(caller.args)
wrongcount(p, n) == n < p.minargs \/ (p.maxargs >= 0 /\ n > p.maxargs)
complaint(p, n) == IF n < p.minargs THEN "too few arguments" ELSE "too many arguments"

\* C13: in unforgiving mode a primitive called with fewer than min_args or more
\* than a bounded max_args arguments does not run its body; the evaluation is
\* given up with '<UNF> (name) too few arguments' or '... too many arguments'
\* printed, and the main loop is back at its prompt
C13_ArityAborts ==
    [][(callsprim /\ unforgiving(Env) /\ wrongcount(prims[calledname], given))
          => /\ pc' = "idle"
             /\ received' = received
             /\ forms' = forms
             /\ startswith(printed', printed \o "<UNF> (" \o calledname \o ") "
                                      \o complaint(prims[calledname], given))]_vars

\* the primitive eval is about to call, and the arguments it gets
callname == IF isprim(calledname, Env) THEN calledname ELSE "cl"
callargs ==
    IF isprim(calledname, Env) THEN Tail(Append(caller.args, passed))
    ELSE Append(caller.args, passed)
firstarg == IF callargs = <<>> THEN "" ELSE callargs[1]

\* the errors that are not fatal: a form not found, a mode mo does not know, a
\* character cm does not take
formmissing ==
    callname \in {"cl", "cr", "cc", "cn", "cs", "in", "ss", "pf"}
        /\ firstarg \notin DOMAIN forms
badmode ==
    callname = "mo" /\ callargs # <<>> /\ lower(firstarg) \notin {"e", "ms", "s", "rt"}
badmeta ==
    callname = "cm" /\ (firstarg = "" \/ CharAt(firstarg, 0) \in {"(", ")", syntchar})
\* a fatal one: the file fb is to read does not exist
nofile == callname = "fb" /\ callargs # <<>> /\ firstarg \notin DOMAIN files

C15_OnlyHalt ==
    [][(pc = "scan" /\ pc' # "scan")
          => /\ pc' \in {"idle", "halted"}
             /\ pc' = "halted" => last'.raised = "tracHalt"
             /\ validated' = validated + 1]_vars

\* the number a sign and a numeral write, and x // y by its definition
signed(s, d) == IF s = "-" THEN 0 - d.v ELSE d.v
quotient(x, y) ==
    CHOOSE q \in -200..200 : IF y > 0 THEN q * y <= x /\ x < (q + 1) * y
                                      ELSE q * y >= x /\ x > (q + 1) * y
computed(pname, x, y) ==
    CASE pname = "ad" -> x + y
      [] pname = "su" -> x - y
      [] pname = "ml" -> x * y
      [] pname = "dv" -> quotient(x, y)

\* C16: ad, su, ml, dv give the prefix of the first argument, then the decimal
\* result of the operation on the signed integers that end the two arguments
\* (no digits: 0; the prefix of the second is dropped); dv and rm give the
\* third argument when the second is worth 0
C16_Arithmetic ==
    \A p1 \in Prefixes, p2 \in Prefixes, s1 \in Signs, s2 \in Signs,
       d1 \in Numerals, d2 \in Numerals :
        (last.op \in mathprims /\ Len(last.args) = 3
            /\ last.args[1] = p1 \o s1 \o d1.s /\ last.args[2] = p2 \o s2 \o d2.s)
        => IF last.op \in {"dv", "rm"} /\ d2.v = 0 THEN last.val = last.args[3]
           ELSE last.op # "rm"
                    => last.val = p1 \o itoa(computed(last.op, signed(s1, d1),
                                                      signed(s2, d2)))

C16_Witness ==
    /\ last.op = "su"
    /\ last.args = <<"3x7", "x+12", Default>>
    /\ last.val = "3x-5"

\* bit i of the number v, and the number the octal digits of s write
bit(v, i) == (v \div 2 ^ i) % 2
RECURSIVE octvalue(_)
octvalue(s) ==
    IF s = "" THEN 0
    ELSE 8 * octvalue(SubSeq(s, 1, Len(s) - 1))
         + (CHOOSE k \in 0..7 : CharAt(Octs, k) = CharAt(s, Len(s) - 1))
\* the value returned is w octal digits
octaldigits(s, w) ==
    Len(s) = w /\ \A k \in 0..(w - 1) : \E j \in 0..7 : CharAt(s, k) = CharAt(Octs, j)

\* the last call was of pname, on an operand ending with the octal digits o
boolcall(pname, at, o) ==
    /\ last.op = pname
    /\ Len(last.args) >= at
    /\ \E p \in BoolPrefixes : last.args[at] = p \o o.s

\* C17: bu, bi, bc, bs give W octal digits, W the larger of the operands' runs
\* of octal digits for bu, the smaller for bi, the operand's run for bc and bs;
\* they write the OR, the AND, the complement within 3W bits, and the operand
\* shifted left by d >= 0, right by -d for d < 0 (all 0 from 3W places on)
C17_Boolean ==
    /\ \A o1 \in Octals, o2 \in Octals :
          /\ (boolcall("bu", 1, o1) /\ boolcall("bu", 2, o2)) =>
                /\ octaldigits(last.val, Max(o1.l, o2.l))
                /\ \A i \in 0..(3 * Max(o1.l, o2.l) - 1) :
                      bit(octvalue(last.val), i) = Max(bit(o1.v, i), bit(o2.v, i))
          /\ (boolcall("bi", 1, o1) /\ boolcall("bi", 2, o2)) =>
                /\ octaldigits(last.val, Min(o1.l, o2.l))
                /\ \A i \in 0..(3 * Min(o1.l, o2.l) - 1) :
                      bit(octvalue(last.val), i) = Min(bit(o1.v, i), bit(o2.v, i))
    /\ \A o \in Octals :
          /\ boolcall("bc", 1, o) =>
                /\ octaldigits(last.val, o.l)
                /\ \A i \in 0..(3 * o.l - 1) :
                      bit(octvalue(last.val), i) = 1 - bit(o.v, i)
          /\ \A d \in Places :
                (boolcall("bs", 2, o) /\ last.args[1] = d.s) =>
                    /\ octaldigits(last.val, o.l)
                    /\ \A i \in 0..(3 * o.l - 1) :
                          bit(octvalue(last.val), i)
                              = IF i - d.v \in 0..(3 * o.l - 1) THEN bit(o.v, i - d.v)
                                ELSE 0

C17_Witness ==
    /\ last.op = "bs"
    /\ last.args = <<"x2", "852">>
    /\ last.val = "50"

\* C18: br(d, b) completes for every d and b, b without octal digits at its end
\* included, and gives as many octal digits as end b: the value of b rotated
\* left by d places within that width (right by -d for d < 0)
C18_Rotate ==
    \A o \in Octals, d \in Places :
        (boolcall("br", 2, o) /\ last.args[1] = d.s) =>
            /\ last.raised = ""
            /\ octaldigits(last.val, o.l)
            /\ \A i \in 0..(3 * o.l - 1) :
                  bit(octvalue(last.val), (i + d.v) % (3 * o.l)) = bit(o.v, i)

\* a call of sb on a path has been made: the names it lists, those of them that
\* are forms, and what the file of that path holds after it, read back
sbcalled == last'.op = "sb" /\ last'.args # <<>>
sbnames == Tail(last'.args)
sbforms == {sbnames[i] : i \in 1..Len(sbnames)} \cap DOMAIN forms
sbmissing == \E i \in 1..Len(sbnames) : sbnames[i] \notin DOMAIN forms
sbfile == unpickled(files'[last'.args[1]])
firstat(names, x) == CHOOSE i \in 1..Len(names) : names[i] = x /\ \A j \in 1..(i - 1) : names[j] # x
nothingdone == forms' = forms /\ files' = files

\* C19: sb(path, name1, ...) writes the listed names that are forms once each,
\* in the order they are first listed, and then deletes just these forms; on
\* an IO error the evaluation is given up with the fatal <STE> and no form is
\* deleted; in unforgiving mode a listed name that is no form gives the
\* evaluation up before anything is written or deleted
C19_StoreBlock ==
    [][sbcalled =>
         IF unforgiving(Env) /\ sbmissing
         THEN last'.raised = "tracError" /\ nothingdone
         ELSE \/ /\ last'.raised = "tracError"
                 /\ startswith(last'.err, "<STE> ")
                 /\ forms' = forms
              \/ /\ last'.raised = ""
                 /\ Len(sbfile) = Cardinality(sbforms)
                 /\ \A x \in sbforms : \E i \in 1..Len(sbfile) : sbfile[i].name = x
                 /\ \A i, j \in 1..Len(sbfile) :
                       i < j => firstat(sbnames, sbfile[i].name)
                                    < firstat(sbnames, sbfile[j].name)
                 /\ DOMAIN forms' = DOMAIN forms \ sbforms
                 /\ \A x \in DOMAIN forms' : forms'[x] = forms[x]]_vars

C19_Witness ==
    /\ last.op = "sb" /\ last.args = <<Path, "g", "f", "g">> /\ last.raised = ""
    /\ Path \in DOMAIN files
    /\ Len(files[Path]) = 2
    /\ unpickled(files[Path])[1].name = "g" /\ unpickled(files[Path])[2].name = "f"
    /\ DOMAIN forms = {}

\* a call of fb has read the file of its path
fbdone == last'.op = "fb" /\ last'.raised = "" /\ last'.err = ""
fbfile == unpickled(files[last'.args[1]])
fbnames == {fbfile[i].name : i \in 1..Len(fbfile)}

printable(c) == ord(c) >= 32 /\ ord(c) <= 126

\* the call made by the step is #(mo,ms,..) or #(cm,..), and the string it is
\* to take the new character from
mscalled == last'.op = "mo" /\ last'.args # <<>> /\ lower(last'.args[1]) = "ms"
cmcalled == last'.op = "cm"
newchar == IF mscalled
           THEN (IF Len(last'.args) > 1 THEN last'.args[2] ELSE "")
           ELSE (IF last'.args = <<>> THEN "" ELSE last'.args[1])

\* the string is one the call is to reject: empty, or its first character a
\* parenthesis, the other special character, or a non-printing character (the
\* newline is one the meta character may be)
unfit(str, other, newlineok) ==
    \/ str = ""
    \/ CharAt(str, 0) \in {"(", ")", other}
    \/ ~printable(CharAt(str, 0)) /\ ~(newlineok /\ CharAt(str, 0) = "\n")

\* C21: whatever calls of mo,ms and cm are made, the syntax and the meta
\* character differ, neither is a parenthesis, the syntax character is a
\* printing character (32..126) and the meta character a printing character or
\* the newline; a call of mo,ms or cm with a string it is to reject leaves both
\* characters as they are
C21_SpecialChars ==
    /\ [](/\ syntchar # metachar
          /\ syntchar \notin {"(", ")"} /\ metachar \notin {"(", ")"}
          /\ printable(syntchar)
          /\ printable(metachar) \/ metachar = "\n")
    /\ [][/\ (mscalled /\ unfit(newchar, metachar, FALSE)) =>
                 UNCHANGED <<syntchar, metachar>>
          /\ (cmcalled /\ unfit(newchar, syntchar, TRUE)) =>
                 UNCHANGED <<syntchar, metachar>>]_vars

\* the call eval is about to be handed, as it was typed, and the name it calls
typedcall == Append(caller.args, passed)
typedname == typedcall[1]

\* the step hands the call to eval as an implied call: cl on the name and the
\* arguments, the activeness of the call kept in activeImpliedCall, the value
\* that of the form (nothing when there is no such form) and active
impliedcalled ==
    /\ disp'.implied
    /\ disp'.op = "cl" /\ disp'.args = typedcall
    /\ activeImpliedCall' = caller.activefn
    /\ disp'.res
    /\ disp'.val = IF typedname \in DOMAIN forms /\ last'.raised = ""
                   THEN val(forms[typedname], Tail(typedcall)) ELSE ""

\* the step hands the call to the primitive of the name in lower case
primcalled ==
    /\ ~disp'.implied
    /\ disp'.op = lower(typedname) /\ disp'.args = Tail(typedcall)

\* the call names an extended primitive, in whatever case
extended == lower(typedname) \in {"rm", "ni"}

\* #(mo) puts the interpreter in the unextended mode, which only #(mo,e)
\* ends; in it a call that names rm or ni is an implied call, as is a call of
\* an unknown name, and a call that fails gives the empty string and the scan
\* goes on
unextending ==
    /\ (lower(typedname) = "mo" /\ Len(typedcall) = 1) => ~mode'.extended
    /\ (~mode.extended /\ mode'.extended) =>
           /\ lower(typedname) = "mo"
           /\ Len(typedcall) > 1 /\ lower(typedcall[2]) = "e"
    /\ (~mode.extended /\ (extended \/ lower(typedname) \notin DOMAIN prims)) =>
           impliedcalled
    /\ ~mode.extended => pc' = "scan"
    /\ (lower(typedname) = "mo" /\ Len(typedcall) > 1 /\ lower(typedcall[2]) = "e") =>
           mode'.extended

\* C22: after #(mo) the extended primitives rm and ni are not called as
\* primitives: a call that names them is the implied call cl(name, args...), as
\* for an unknown name, and errors are forgiven; this lasts until #(mo,e),
\* after which they are primitives again. The names of primitives are matched
\* in any case
C22_Unextended ==
    [][Dispatchable =>
         /\ unextending
         /\ (mode.extended /\ extended) => primcalled]_vars

\* C22, amended: after #(mo,e) rm and ni are primitives if the switch p is on,
\* as it is unless #(mo,s,-p) turned it off, and implied calls if it is off
C22_UnextendedSwitch ==
    [][Dispatchable =>
         /\ unextending
         /\ (mode.extended /\ mode.p /\ extended) => primcalled
         /\ (mode.extended /\ ~mode.p /\ extended) => impliedcalled]_vars

\* ##(rm,7,3) typed after #(ds,rm,(r(x))) and #(mo): the value of the form rm
C22_Witness ==
    /\ ~mode.extended
    /\ disp.implied /\ disp.args = <<"rm", "7", "3">> /\ disp.val = "r(x)"
    /\ pc = "scan" /\ active = "r(x))"

\* the name eval is handed is not one of a primitive it may call: no primitive
\* has the name, or one that is extended while extended primitives are off
unavailable ==
    \/ lower(typedname) \notin DOMAIN prims
    \/ extended /\ ~(mode.extended /\ mode.p)

\* C23: a call of a name that is no available primitive keeps the activeness of
\* the call in activeImpliedCall and gives cl(name, arg1, ...) as an active
\* value, which is scanned again also after ##(name, ...); if the name is no
\* form either, the value is empty in forgiving mode, and in unforgiving mode
\* the evaluation is given up with '<UNF> (cl) form not found'
C23_ImpliedCall ==
    [][(Dispatchable /\ unavailable) =>
         /\ activeImpliedCall' = caller.activefn
         /\ IF typedname \in DOMAIN forms
            THEN /\ pc' = "scan"
                 /\ active' = val(forms[typedname], Tail(typedcall)) \o rest
                 /\ stack'[Len(stack')].neutral = caller.neutral
            ELSE IF ~(mode.extended /\ mode.u)
            THEN /\ pc' = "scan"
                 /\ active' = rest
                 /\ stack'[Len(stack')].neutral = caller.neutral
            ELSE /\ pc' = "idle"
                 /\ printed' = printed \o "<UNF> (cl) form not found (" \o typedname
                                       \o ")\n"]_vars

\* ##(zz) typed after #(ds,zz,((a)#(ni,A,B))): the body is scanned, ni finds the
\* call neutral
C23_Witness ==
    /\ pc = "idle"
    /\ printed = strpsrs \o "\n> aA\n"
    /\ ~activeImpliedCall
    /\ "zz" \in DOMAIN forms

\* C29: at depth 0 a syntax character that neither "(" nor the syntax character
\* and "(" follow is added to the neutral string and the scan goes on with the
\* character after it, wherever in the active string it is, its end included
C29_LoneSyntaxChar ==
    [][(/\ Matched
        /\ top.depth = 0
        /\ ch = syntchar
        /\ ~startswith(rest, "(")
        /\ ~startswith(rest, syntchar \o "("))
          => /\ pc' = "scan"
             /\ stack' = settop([top EXCEPT !.neutral = passed \o ch])
             /\ active' = rest]_vars

\* the scanner as #(mo,ms,c) is to leave it: the first syntax character,
\* parenthesis, comma or newline of s from index i on, or -1
RECURSIVE stopat(_, _)
stopat(s, i) ==
    IF i >= Len(s) THEN -1
    ELSE IF CharAt(s, i) \in {syntchar, "(", ")", ",", "\n"} THEN i
    ELSE stopat(s, i + 1)

\* the active string after its character at index i
behindat(i) == StrFrom(active, i + 1)

\* C30: whatever character #(mo,ms,c) has made the syntax character, the scanner
\* at depth 0 takes it with "(" after it for the opening of an active call and
\* twice with "(" after it for the opening of a neutral call, and the text
\* before it, the previous syntax character included, for neutral text
C30_NewSyntaxChar ==
    [][(/\ pc = "scan" /\ stack # <<>>
        /\ top.depth = 0
        /\ Len(stack) < MaxDepth
        /\ stopat(active, 0) >= 0
        /\ CharAt(active, stopat(active, 0)) = syntchar
        /\ \/ startswith(behindat(stopat(active, 0)), "(")
           \/ startswith(behindat(stopat(active, 0)), syntchar \o "("))
          => /\ pc' = "scan"
             /\ Len(stack') = Len(stack) + 1
             /\ stack'[Len(stack)].activefn = startswith(behindat(stopat(active, 0)), "(")
             /\ stack'[Len(stack)].neutral
                   = top.neutral \o StrSlice(active, 0, stopat(active, 0))
             /\ active' = StrFrom(behindat(stopat(active, 0)),
                                  IF startswith(behindat(stopat(active, 0)), "(")
                                  THEN 1 ELSE 2)]_vars

\* the active string has ended inside a call, and the outermost parse returns
\* with a remainder
endsunclosed == pc = "scan" /\ Len(stack) > 1 /\ match = -1
endsunbalanced ==
    /\ pc = "scan" /\ Len(stack) = 1
    /\ IF match = -1 THEN active # "" \/ top.neutral # ""
       ELSE top.depth = 0 /\ ch \in {",", ")"}

UNFunclosed == "<UNF> hit end of string while expecting ')'"
UNFunbalanced == "<UNF> unbalanced parens: after parsing, remainder = "

\* the round is given up with text printed and no call dispatched
givenup(text) ==
    /\ pc' = "idle"
    /\ printed' = printed \o text
    /\ dispatched' = dispatched
    /\ UNCHANGED storevars

\* C31 as claimed: an active string that ends before the ")" of a call ends
\* the round with that call not dispatched and the error "hit end of string"
\* printed; an evaluation that ends with a remainder has the error "unbalanced
\* parens" printed after the blank line
C31_ParseErrors ==
    [][/\ endsunclosed => givenup(UNFunclosed \o "\n")
       /\ endsunbalanced => givenup("\n" \o UNFunbalanced \o top.neutral \o active \o "\n")]_vars

\* C31 amended: the two errors are printed when unforgiving is on; when it is
\* off the round ends the same way with an empty line in their place
C31_ParseErrorsUnforgiving ==
    [][/\ endsunclosed =>
             givenup((IF mode.extended /\ mode.u THEN UNFunclosed ELSE "") \o "\n")
       /\ endsunbalanced =>
             givenup("\n" \o (IF mode.extended /\ mode.u
                               THEN UNFunbalanced \o top.neutral \o active ELSE "")
                          \o "\n")]_vars

\* with unforgiving on, #(cl,f has been typed and the round has ended with the
\* error printed after the prompt
C31_Witness ==
    /\ pc = "idle" /\ rounds > 1
    /\ mode.extended /\ mode.u
    /\ printed = strpsrs \o "\n> " \o UNFunclosed \o "\n"

\* the names of a call of dd, and whether the one at index j is missing when
\* its turn comes
ddargs == last'.args
ddmissing(j) == ddargs[j] \notin DOMAIN forms \/ \E i \in 1..(j - 1) : ddargs[i] = ddargs[j]
ddanymissing == \E j \in 1..Len(ddargs) : ddmissing(j)
ddfirstmissing == CHOOSE j \in 1..Len(ddargs) : ddmissing(j) /\ \A i \in 1..(j - 1) : ~ddmissing(i)

\* the forms named by names are gone from the store, the others are as they were
deleted(names) ==
    /\ DOMAIN forms' = DOMAIN forms \ names
    /\ \A n \in DOMAIN forms' : forms'[n] = forms[n]

ddallnames == {ddargs[i] : i \in 1..Len(ddargs)}
ddreported(name) ==
    /\ last'.raised = "tracError"
    /\ last'.err = "<UNF> (dd) form not found (" \o name \o ")"
ddsilent == last'.raised = "" /\ last'.val = ""

\* C32 as claimed: dd removes every named form that exists and changes no other
\* form; a name not in the store is ignored silently in forgiving mode and
\* reported as form not found in unforgiving mode; da leaves the store empty
C32_Delete ==
    [][/\ last'.op = "dd" =>
             /\ deleted(ddallnames)
             /\ IF mode.extended /\ mode.u /\ ddanymissing
                THEN ddreported(ddargs[ddfirstmissing])
                ELSE ddsilent
       /\ last'.op = "da" => DOMAIN forms' = {}]_vars

\* C32 amended: in unforgiving mode the first missing name ends the call, and
\* only the forms named before it are removed
C32_DeleteUpToMissing ==
    [][/\ last'.op = "dd" =>
             IF mode.extended /\ mode.u /\ ddanymissing
             THEN /\ deleted({ddargs[i] : i \in 1..(ddfirstmissing - 1)})
                  /\ ddreported(ddargs[ddfirstmissing])
             ELSE deleted(ddallnames) /\ ddsilent
       /\ last'.op = "da" => DOMAIN forms' = {} /\ ddsilent]_vars

\* forgiving dd(h, f) has removed f from a store that held f and g and no h
C32_Witness ==
    /\ last.op = "dd" /\ last.args = <<"h", "f">> /\ last.raised = ""
    /\ ~mode.u
    /\ DOMAIN forms = {"g"}

\* C40: in unforgiving mode dd(n1, ..., nk) with nj its first missing name
\* removes the forms n1..n(j-1), raises the error for nj, and every other form
\* of the store, those named after nj among them, stays as it is
C40_DeleteNotAtomic ==
    [][(last'.op = "dd" /\ mode.extended /\ mode.u /\ ddanymissing) =>
          /\ \A i \in 1..(ddfirstmissing - 1) : ddargs[i] \notin DOMAIN forms'
          /\ ddreported(ddargs[ddfirstmissing])
          /\ \A n \in DOMAIN forms \ {ddargs[i] : i \in 1..(ddfirstmissing - 1)} :
                n \in DOMAIN forms' /\ forms'[n] = forms[n]
          /\ mode' = mode]_vars

\* unforgiving dd(f, h, g) on a store with f and g and no h: f is gone, g is
\* there, the error names h
C40_Witness ==
    /\ last.op = "dd" /\ last.args = <<"f", "h", "g">>
    /\ last.raised = "tracError" /\ last.err = "<UNF> (dd) form not found (h)"
    /\ mode.extended /\ mode.u
    /\ DOMAIN forms = {"g"}

\* eval is handed a call while trace is on, and what it prints before it waits
tracedcall == pc = "scan" /\ Dispatchable /\ tracing
tracedtext == traceline(Append(caller.args, passed), caller.activefn, Env)

\* C33: while trace is on every call handed to eval waits for a line first; an
\* empty line and the call is executed, the scan going on; any other line and
\* the call is not executed, <INT> is printed, and the program is back at the
\* prompt with the forms, the modes and the syntax and meta characters as they
\* were before the call
C33_TraceCancel ==
    [][tracedcall =>
          /\ disp'.id = caller.id
          /\ disp'.line \in Lines
          /\ disp'.line = "\n" =>
                /\ last'.raised = ""
                /\ pc' = "scan"
                /\ startswith(printed', printed \o tracedtext)
          /\ disp'.line # "\n" =>
                /\ last'.raised = "KeyboardInterrupt"
                /\ pc' = "idle"
                /\ printed' = printed \o tracedtext \o "<INT>\n"
                /\ forms' = forms /\ mode' = mode
                /\ syntchar' = syntchar /\ metachar' = metachar
                /\ activeImpliedCall' = activeImpliedCall]_vars

\* #(ds,f,a) typed with trace on and cancelled by a line that is not empty: the
\* program is at the prompt, no form f defined
C33_Witness ==
    /\ pc = "idle"
    /\ disp.op = "ds" /\ disp.args = <<"f", "a">> /\ disp.line = "x\n"
    /\ last.raised = "KeyboardInterrupt"
    /\ "f" \notin DOMAIN forms
    /\ printed = strpsrs \o "\n> " \o "#/ rs / #/ ds * f * a / <INT>\n"

-----------------------------------------------------------------------------
(* ^C at a read string or a read character *)

\* the call dispatched in this step is a read, and ^C ended it
interrupted ==
    /\ Dispatchable
    /\ calledname \in {"rs", "rc"}
    /\ Len(dispatched') = Len(dispatched) + 1
    /\ last'.raised = "KeyboardInterrupt"

\* C34: ^C struck while rs or rc waits gives up the evaluation of the round,
\* prints <INT> and comes back to the prompt; the forms, the syntax and the meta
\* character, the mode switches and the history of rs are as they were when the
\* read began
C34_InterruptedRead ==
    [][interrupted =>
          /\ pc' = "idle"
          /\ stack' = <<>>
          /\ active' = ""
          /\ printed' = printed \o "<INT>\n"
          /\ forms' = forms
          /\ syntchar' = syntchar
          /\ metachar' = metachar
          /\ mode' = mode
          /\ rshistory' = rshistory]_vars

\* a read was interrupted after a form was defined, the meta character changed
\* and three strings read
C34_Witness ==
    /\ pc = "idle"
    /\ last.raised = "KeyboardInterrupt"
    /\ last.op \in {"rs", "rc"}
    /\ forms # [x \in {} |-> x]
    /\ metachar = ";"
    /\ rshistory = 3

-----------------------------------------------------------------------------
(* Read string of the line console *)

\* the characters the console can read without waiting: the buffer and the
\* lines typed, up to the end of the file
RECURSIVE joined(_)
joined(lines) ==
    IF lines = <<>> \/ Head(lines) = "" THEN "" ELSE Head(lines) \o joined(Tail(lines))

available(buf, lines) == buf \o joined(lines)

\* where the first meta character is among them, and what follows it
metaat == strfind(available(inbuf, stdin), metachar, 0)
aftermeta == StrFrom(available(inbuf, stdin), metaat + 1)

\* this step is a read string of the line console
linerscall ==
    /\ last'.op = "rs"
    /\ Len(stdin') <= Len(stdin)
    /\ <<stdin', inbuf'>> # <<stdin, inbuf>>

\* C35: read string of the line console, a meta character being among the
\* characters typed, returns the characters before the first meta character,
\* takes one newline right after a meta character that is not the newline, and
\* leaves what follows for the next read, also when nothing follows
C35_LineRead ==
    [][(linerscall /\ metaat >= 0) =>
          /\ last'.raised = ""
          /\ last'.val = StrSlice(available(inbuf, stdin), 0, metaat)
          /\ available(inbuf', stdin') =
                IF metachar # "\n" /\ startswith(aftermeta, "\n")
                THEN StrFrom(aftermeta, 1) ELSE aftermeta]_vars

-----------------------------------------------------------------------------
(* The insertion point of the ANSI console *)

\* C39: whatever keys are struck on whatever input string, prompt and screen
\* width, the insertion point is within the string and posfrompoint does not
\* raise its logic error
C39_InsertionPoint ==
    /\ tcinp.inspoint \in 0..Len(tcinp.rstring)
    /\ ~(last.op = "rs" /\ last.raised = "termError")

-----------------------------------------------------------------------------
(* Extended read string of the ANSI console *)

\* the displacement as written: its digits, and whether a minus sign leads it
digitsof(d) == strtoint(IF startswith(d, "-") \/ startswith(d, "+") THEN StrFrom(d, 1) ELSE d)
fromend(d) == startswith(d, "-")

\* readstr gets to its main loop in this step, called with a displacement and
\* the extended primitives on; the meta character is struck in this step
displaced == ~tcinp.editing /\ tcinp'.editing /\ Len(last'.args) >= 2 /\ extprim(Env)
metastruck == tcinp.editing /\ ~tcinp'.editing /\ rshistory' = rshistory + 1

\* C36: #(rs,init,d) of the ANSI console with the extended primitives on starts
\* with the insertion point in 0..len(init): at min(d, len(init)) for d without
\* sign or not negative, at max(0, len(init) - d) for -d, so at the end for -0;
\* the meta character returns the text before the insertion point only
C36_Displacement ==
    [][/\ displaced =>
             /\ tcinp'.rstring = last'.args[1]
             /\ tcinp'.inspoint \in 0..Len(last'.args[1])
             /\ tcinp'.inspoint =
                   IF fromend(last'.args[2])
                   THEN max(0, Len(last'.args[1]) - digitsof(last'.args[2]))
                   ELSE min(digitsof(last'.args[2]), Len(last'.args[1]))
       /\ metastruck =>
             last'.val = StrSlice(tcinp.rstring, 0, tcinp.inspoint)]_vars

\* abc was given with the displacement -1 and the meta character struck: ab
\* was read
C36_Witness ==
    /\ last.op = "rs"
    /\ last.args = <<"abc", "-1">>
    /\ last.val = "ab"
    /\ ~tcinp.editing
    /\ rshistory > 0

-----------------------------------------------------------------------------
(* ni after a nested implied call *)

\* C37: activeImpliedCall is the activeness of the implied call dispatched
\* last, and the return of a nested implied call does not bring back that of
\* the outer one: ni(A, B) read from the value of an active implied call, after
\* a neutral implied call was dispatched from that value, gives A
C37_NiNotRestored ==
    /\ activeImpliedCall = (lastimplied = "active")
    /\ (disp.op = "ni" /\ ~disp.implied /\ Len(disp.args) = 2
           /\ disp.inbody = "active" /\ disp.lastimplied = "neutral") =>
          disp.val = disp.args[1]

\* #(g) with g holding ##(h)#(ni,A,B): ni, read from the value of the active
\* call of g after the neutral call of h, has given A
C37_Witness ==
    /\ disp.op = "ni" /\ ~disp.implied /\ disp.args = <<"A", "B">>
    /\ disp.inbody = "active" /\ disp.lastimplied = "neutral"
    /\ disp.val = "A"
    /\ "g" \in DOMAIN forms

-----------------------------------------------------------------------------
(* The switches in the unextended mode *)

\* the call handed to eval is #(mo,s,switches)
switching ==
    /\ lower(typedname) = "mo"
    /\ Len(typedcall) = 3
    /\ lower(typedcall[2]) = "s"

\* C38: from #(mo) to the next #(mo,e) neither unforgiving errors nor the
\* extended primitives are on: a call that names an extended primitive is an
\* implied call and a round that fails prints no message; #(mo,s,switches)
\* called meanwhile changes the switches #(mo,e) will bring, and nothing else
C38_SwitchesUnextended ==
    [][~mode.extended =>
          /\ ~unforgiving(Env) /\ ~extprim(Env)
          /\ (Dispatchable /\ extended /\ dispatched' # dispatched) => impliedcalled
          /\ (pc = "scan" /\ pc' = "idle") =>
                printed' \in {printed \o "\n", printed \o "\n\n"}
          /\ (Dispatchable /\ switching /\ dispatched' # dispatched) =>
                /\ ~mode'.extended
                /\ pc' = "scan"
                /\ UNCHANGED <<forms, syntchar, metachar, activeImpliedCall, printed>>
          /\ mode'.extended => (mode'.p = mode.p /\ mode'.u = mode.u)]_vars

\* after #(mo) and #(mo,s,+u) the active string has ended inside a call
C38_Witness ==
    /\ ~mode.extended
    /\ mode.u
    /\ pc = "scan"
    /\ Len(stack) > 1
    /\ match = -1

====
